---- MODULE Spec2Model ----
(***************************************************************************)
(* crux: the raw-process supervisor (ProcessManager / ManagedProcess /     *)
(* BackendHandler) and the logging wrapper generated by wrapCommand.       *)
(*                                                                         *)
(* SpecPM  - the process manager: client threads call StartProcess,        *)
(*           StopProcess, Stop, StopAll, SendInput and Restart while the   *)
(*           OS processes, the exec context watcher and the monitorExit    *)
(*           goroutines run concurrently.                                  *)
(* SpecLog - the shell wrapper of wrapCommand, one step per shell command, *)
(*           over the log directory of one service.                        *)
(* SpecGate - main: the dependency gate (CheckDependencies) before the    *)
(*           services are spawned, and the start-one path.                 *)
(* SpecResolve - addressing a wezterm session by reference: resolvePane    *)
(*           of the ControlPlane and findTab of the Agent Bridge.          *)
(* SpecCrash - checkServiceFailures over the logs the wrappers write.      *)
(* SpecLive - one ManagedProcess with the fairness its goroutines have.    *)
(* SpecStop - handleStopAll and the delayed shutdown callback.             *)
(* SpecBridge - the stdin loop of the Agent Bridge (crux-mcp).             *)
(* SpecOut - captureOutput and GetOutput over the output buffer.           *)
(* SpecRuns - orchestrator runs, their panes and the roster file.          *)
(***************************************************************************)
EXTENDS Integers, Sequences, FiniteSets, Bags, TLC

VARIABLES
    \* ---- ProcessManager ----
    processes,    \* pm.processes: id -> instance (0 = no entry)
    pmMu,         \* pm.mu is write-locked (by the StartProcess in progress)
    nInst,        \* number of live ManagedProcess objects
    pID,          \* p.ID
    State,        \* p.State
    mu,           \* p.mu is write-locked (by the Stop in progress)
    osProc,       \* the OS process behind p.Cmd: "none" | "alive" | "exited"
    ctxDone,      \* the context of p.Cancel has been cancelled
    streams,      \* p.Stdout / p.Stderr / p.Stdin: TRUE = open
    stopCancels,  \* number of p.Cancel() calls made by Stop
    stopKills,    \* number of p.Cmd.Process.Kill() calls made by Stop
    stopCloses,   \* number of times Stop ran its three Close() calls
    monPc,        \* position of the monitorExit goroutine
    \* ---- clients ----
    calls,        \* the calls in progress (a bag): position and locals of each
    ev,           \* the call step just taken: what was called, what it returned
    \* ---- log directory of one service: /tmp/crux-logs/<service>/ ----
    runFiles,     \* the <timestamp>.log files, least recently modified first
    latest,       \* the timestamp latest.log points to, 0 = no latest.log
    clock,        \* the wall clock, in seconds
    wpc,          \* position of the wrapper script
    wTimestamp    \* $TIMESTAMP of the wrapper

pmVars  == <<processes, pmMu, nInst, pID, State, mu, osProc, ctxDone, streams,
             stopCancels, stopKills, stopCloses, monPc>>
logVars == <<runFiles, latest, clock, wpc, wTimestamp>>

VARIABLES
    \* ---- one invocation of the orchestrator (main) ----
    mode,         \* "run" = full startup, "start-one" = crux start-one <service>
    deps,         \* cfg.Dependencies: [start, timeout] in declaration order
    gpc,          \* position of main
    depIdx,       \* the dependency checkDependency is working on (0 = none)
    elapsed,      \* seconds since the deadline of depIdx was computed
    attempts,     \* polls made for depIdx after its start command
    checksRun,    \* runCheck executions made for depIdx
    firstOk,      \* outcome of the first check of depIdx
    checked,      \* the last dependency a check command was run for
    nReady,       \* dependencies found ready so far
    lastDur,      \* seconds the last runCheck took
    gateRes,      \* what CheckDependencies returned ("none" = not yet)
    errDep,       \* the dependency named by the error (0 = none)
    spawned       \* services spawned by this invocation

gateVars == <<mode, deps, gpc, depIdx, elapsed, attempts, checksRun, firstOk,
              checked, nReady, lastDur,
              gateRes, errDep, spawned>>

VARIABLES
    \* ---- sessions: the wezterm backend and the ways to address a pane ----
    panes,        \* the live listing of wezterm: <<[title, id], ...>>
    nPanes,       \* panes created so far; pane ids are never reused
    servicePanes, \* WeztermLauncher.servicePanes: service name -> pane id
    rev           \* the last resolution made and what it led to

resVars == <<panes, nPanes, servicePanes, rev>>

VARIABLES
    \* ---- crash detection: the logs the wrappers write, and their scan ----
    svcLog,       \* per service: the state of /tmp/crux-logs/<name>/latest.log
    scanned,      \* checkServiceFailures has run on the logs as they are now
    failed        \* the names it returned, in order

crashVars == <<svcLog, scanned, failed>>

VARIABLES
    \* ---- the shutdown endpoint: POST /stop of the API server ----
    stopReqs,     \* per connection: the request to /stop and how far it got
    timers,       \* per request: the goroutine that delays the callback
    teardown      \* "no", or how far the onShutdown callback got

stopVars == <<stopReqs, timers, teardown>>

VARIABLES
    \* ---- the Agent Bridge: crux-mcp, JSON-RPC over stdio ----
    inbox,        \* the lines read from stdin so far, in order
    outbox,       \* the responses written to stdout so far, in order
    lastCall      \* what the last line, if a tools/call, made the bridge do

bridgeVars == <<inbox, outbox, lastCall>>

VARIABLES
    \* ---- the output buffer of one ManagedProcess ----
    outputLines,  \* p.outputLines: the captured lines, numbered by arrival
    total,        \* lines appended so far
    capPc,        \* per reader (stdout, stderr): position of captureOutput
    bufMu,        \* p.mu: "free", or the reader that holds it
    observed      \* what the last GetOutput returned, and total at that time

outVars == <<outputLines, total, capPc, bufMu, observed>>

VARIABLES
    \* ---- orchestrator runs and the panes they leave behind ----
    runNo,        \* number of the run in progress, or of the last one
    rpc,          \* where the run is: "idle" = no run in progress
    paneIDs,      \* w.paneIDs of the run's launcher
    alive,        \* the panes alive in wezterm, each [run, k]
    roster,       \* the pane ids in /tmp/crux-panes.txt ({} = no file)
    startOnes,    \* services started through the API after the batch
    failedSvc,    \* the service of the batch whose spawn failed (0 = none)
    lastEnd       \* how the last run that ended did end

runVars == <<runNo, rpc, paneIDs, alive, roster, startOnes, failedSvc, lastEnd>>

VARIABLES
    \* ---- the lock of the API server ----
    hreq,         \* the HTTP requests: kind, position, holds s.mu for reading
    setter        \* SetWorkers / SetTabController: "idle" | "waiting" | "holding"

lockVars == <<hreq, setter>>

VARIABLES
    \* ---- accesses to the registry of the launcher ----
    racc,         \* per HTTP request: the operation, its position, raced
    regFault      \* the runtime has detected a concurrent map access

regVars == <<racc, regFault>>

VARIABLES
    \* ---- one call of SpawnTab ----
    sp            \* the call: position, anchors, attempts, pauses, result

spawnVars == <<sp>>

VARIABLES
    \* ---- one call of KillPrevious ----
    kp            \* the call: position, lines of the roster, kills issued

killVars == <<kp>>

VARIABLES
    \* ---- commands sent to the pipe of a worker ----
    sends,        \* per send: the caller, its writer goroutine, the channel
    reader        \* a reader has the pipe open

pipeVars == <<sends, reader>>

VARIABLES
    \* ---- the window of a run among the panes of wezterm ----
    wpanes,       \* the panes of wezterm: id and who made them
    wnext,        \* the id wezterm gives to its next pane
    wtracked,     \* w.paneIDs of the run
    wroster,      \* the pane ids in the roster file
    wopened,      \* OpenWindow has run in this run
    wkilled       \* panes of the user that crux has killed

winVars == <<wpanes, wnext, wtracked, wroster, wopened, wkilled>>

VARIABLES
    \* ---- who runs the cleanup of the panes ----
    cleaners,     \* per goroutine (0 = main, r = callback of request r)
    downExit      \* the process has exited

downVars == <<cleaners, downExit>>

\* What the steps of one part leave alone: everything outside that part.
offPM    == <<logVars, gateVars, resVars, crashVars, stopVars, bridgeVars, outVars, runVars, lockVars, regVars, spawnVars, killVars, pipeVars, winVars, downVars>>
offLog   == <<pmVars, calls, ev, gateVars, resVars, crashVars, stopVars, bridgeVars, outVars, runVars, lockVars, regVars, spawnVars, killVars, pipeVars, winVars, downVars>>
offGate  == <<pmVars, calls, ev, logVars, resVars, crashVars, stopVars, bridgeVars, outVars, runVars, lockVars, regVars, spawnVars, killVars, pipeVars, winVars, downVars>>
offRes   == <<pmVars, calls, ev, logVars, gateVars, crashVars, stopVars, bridgeVars, outVars, runVars, lockVars, regVars, spawnVars, killVars, pipeVars, winVars, downVars>>
offCrash == <<pmVars, calls, ev, logVars, gateVars, resVars, stopVars, bridgeVars, outVars, runVars, lockVars, regVars, spawnVars, killVars, pipeVars, winVars, downVars>>

offStop == <<pmVars, calls, ev, logVars, gateVars, resVars, crashVars, bridgeVars, outVars, runVars, lockVars, regVars, spawnVars, killVars, pipeVars, winVars, downVars>>

offBridge == <<pmVars, calls, ev, logVars, gateVars, resVars, crashVars, stopVars, outVars, runVars, lockVars, regVars, spawnVars, killVars, pipeVars, winVars, downVars>>

offOut == <<pmVars, calls, ev, logVars, gateVars, resVars, crashVars, stopVars, bridgeVars, runVars, lockVars, regVars, spawnVars, killVars, pipeVars, winVars, downVars>>

offRun == <<pmVars, calls, ev, logVars, gateVars, resVars, crashVars, stopVars, bridgeVars, outVars, lockVars, regVars, spawnVars, killVars, pipeVars, winVars, downVars>>

offLock == <<pmVars, calls, ev, logVars, gateVars, resVars, crashVars, stopVars, bridgeVars, outVars, runVars, regVars, spawnVars, killVars, pipeVars, winVars, downVars>>

offReg == <<pmVars, calls, ev, logVars, gateVars, resVars, crashVars, stopVars, bridgeVars, outVars, runVars, lockVars, spawnVars, killVars, pipeVars, winVars, downVars>>

offSpawn == <<pmVars, calls, ev, logVars, gateVars, resVars, crashVars, stopVars, bridgeVars, outVars, runVars, lockVars, regVars, killVars, pipeVars, winVars, downVars>>

offKill == <<pmVars, calls, ev, logVars, gateVars, resVars, crashVars, stopVars, bridgeVars, outVars, runVars, lockVars, regVars, spawnVars, pipeVars, winVars, downVars>>

offPipe == <<pmVars, calls, ev, logVars, gateVars, resVars, crashVars, stopVars, bridgeVars, outVars, runVars, lockVars, regVars, spawnVars, killVars, winVars, downVars>>

offWin == <<pmVars, calls, ev, logVars, gateVars, resVars, crashVars, stopVars, bridgeVars, outVars, runVars, lockVars, regVars, spawnVars, killVars, pipeVars, downVars>>

offDown == <<pmVars, calls, ev, logVars, gateVars, resVars, crashVars, stopVars, bridgeVars, outVars, runVars, lockVars, regVars, spawnVars, killVars, pipeVars, winVars>>

vars     == <<pmVars, calls, ev, logVars, gateVars, resVars, crashVars, stopVars, bridgeVars, outVars, runVars, lockVars, regVars, spawnVars, killVars, pipeVars, winVars, downVars>>

----------------------------------------------------------------------------
(* Bounds *)
MaxInst    == 2      \* ManagedProcess objects alive at the same time
NumThreads == 2      \* client calls in progress at the same time
MaxClock   == 12     \* seconds the wall clock runs for
MaxDeps     == 2     \* dependencies declared in the configuration
MaxCheckDur == 2     \* seconds one execution of a check command may take
NumServices == 2     \* services declared in the configuration
MaxPaneId   == 3     \* panes created over the life of the wezterm window
MaxChunks   == 3     \* pieces of text written to one log file
MaxStopReqs == 3     \* requests made to /stop over the life of the server
MaxLines    == 3     \* lines the Agent Bridge reads from stdin
maxLines    == 3     \* capacity of the output buffer (1000 in runner.go:234)
MaxTotal    == 6     \* lines a process writes to stdout and stderr together
MaxRuns     == 3     \* orchestrator runs made one after another
MaxStartOne == 1     \* services started through the API during one run
MaxReqs     == 3     \* HTTP requests in flight at the API server
MaxRoster   == 3     \* lines of the roster file
MaxSends    == 2     \* commands sent to the pipe of one worker
MaxWezPanes == 4     \* panes wezterm creates in all
MaxElapsed  == 3     \* seconds a send is followed for

\* Service names (the titles of their tabs) and the references callers give.
Titles  == {"backend", "flutter-ios", "flutter-android"}
Refs    == {"", "1", "2", "flutter", "BACK", "backend", "db"}
Ops     == {"send", "logs", "focus"}

IDs     == {"backend", "flutter1"}
Inputs  == {"r", "R"}
Insts   == 1..MaxInst
procID  == "backend"

StateStopped  == "stopped"
StateStarting == "starting"
StateRunning  == "running"
StateStopping == "stopping"
StateError    == "error"

AllOpen   == [Stdout |-> TRUE,  Stderr |-> TRUE,  Stdin |-> TRUE]
AllClosed == [Stdout |-> FALSE, Stderr |-> FALSE, Stdin |-> FALSE]

\* A call step: op called with id (or input text) on instance inst returned
\* res; data = the bytes that reached stdin; was = the instance was Running
\* when the call was made.
Event(o, id, i, r, d, w) ==
    [op |-> o, id |-> id, inst |-> i, res |-> r, data |-> d, was |-> w]
Tau == Event("tau", "", 0, "", "", FALSE)

\* A call in progress: pc = where it is, op = the outermost operation it
\* belongs to, cur = the instance it works on, todo / snap = StopAll's loop
\* state and snapshot, was = cur was Running when Stop was called on it,
\* res = the result Restart got from StartProcess.
Call(pc, o, i) ==
    [pc |-> pc, op |-> o, cur |-> i, todo |-> {}, snap |-> {},
     was |-> FALSE, res |-> ""]

InFlight == BagToSet(calls)
CanCall  == BagCardinality(calls) < NumThreads
Begin(d)   == calls' = calls (+) SetToBag({d})
End(c)     == calls' = calls (-) SetToBag({c})
Move(c, d) == calls' = (calls (-) SetToBag({c})) (+) SetToBag({d})

\* Registered instances: the values of the pm.processes map.
Registered == {processes[id] : id \in {x \in IDs : processes[x] # 0}}

\* Pointers callers can hold: those StartProcess returned (line 260) or that
\* GetProcess / ListProcesses hand out, i.e. launched instances.
Handles == {i \in Insts : i <= nInst /\ osProc[i] # "none"}

InitPM ==
    /\ processes = [id \in IDs |-> 0]
    /\ pmMu = FALSE
    /\ nInst = 0
    /\ pID = [i \in Insts |-> ""]
    /\ State = [i \in Insts |-> "none"]
    /\ mu = [i \in Insts |-> FALSE]
    /\ osProc = [i \in Insts |-> "none"]
    /\ ctxDone = [i \in Insts |-> FALSE]
    /\ streams = [i \in Insts |-> AllClosed]
    /\ stopCancels = [i \in Insts |-> 0]
    /\ stopKills = [i \in Insts |-> 0]
    /\ stopCloses = [i \in Insts |-> 0]
    /\ monPc = [i \in Insts |-> "none"]

InitClients ==
    /\ calls = EmptyBag
    /\ ev = Tau

InitLog ==
    /\ runFiles = <<>>
    /\ latest = 0
    /\ clock = 1
    /\ wpc = "idle"
    /\ wTimestamp = 0

\* main has not begun; no configuration is loaded yet.
InitMainIdle ==
    /\ mode = "run"
    /\ deps = <<>>
    /\ gpc = "main"
    /\ depIdx = 0
    /\ elapsed = 0
    /\ attempts = 0
    /\ checksRun = 0
    /\ firstOk = "none"
    /\ checked = 0
    /\ nReady = 0
    /\ lastDur = 0
    /\ gateRes = "none"
    /\ errDep = 0
    /\ spawned = 0

\* A resolution: made on the path (ControlPlane "api" or Agent Bridge
\* "bridge") for op with reference ref; target = the pane id the action was
\* performed on (0 = no action), err = the error returned, names = the names
\* the error enumerates, queried = the live backend was listed.
Resolution(path, op, ref, target, err, names, queried) ==
    [path |-> path, op |-> op, ref |-> ref, target |-> target, err |-> err,
     names |-> names, queried |-> queried]
NoResolution == Resolution("none", "", "", 0, "", <<>>, FALSE)

\* NewWeztermLauncher (part_010:31-36): no pane, empty servicePanes.
InitSessions ==
    /\ panes = <<>>
    /\ nPanes = 0
    /\ servicePanes = [t \in Titles |-> 0]
    /\ rev = NoResolution

\* The services whose logs are scanned, in the order of the configuration.
ServiceNames == <<"backend", "flutter">>
Services == {ServiceNames[k] : k \in 1..Len(ServiceNames)}

\* No wrapper has run yet: there is no latest.log.
InitCrash ==
    /\ svcLog = [n \in Services |-> [st |-> "none", chunks |-> <<>>]]
    /\ scanned = FALSE
    /\ failed = <<>>

StopReqIds == 1..MaxStopReqs
Methods    == {"POST", "GET"}

\* The server is up with its onShutdown callback set (part_001:323-327);
\* no request has arrived.
InitStop ==
    /\ stopReqs = [r \in StopReqIds |-> [pc |-> "none", method |-> ""]]
    /\ timers = [r \in StopReqIds |-> "none"]
    /\ teardown = "no"

\* What a tools/call made the bridge do: requests to the ControlPlane API,
\* commands run directly (wezterm cli, osascript), responses written.
Accesses(tool, http, cli, responses) ==
    [tool |-> tool, http |-> http, cli |-> cli, responses |-> responses]
NoCall == Accesses("", 0, 0, 0)

\* The scanner has read nothing.
InitBridge ==
    /\ inbox = <<>>
    /\ outbox = <<>>
    /\ lastCall = NoCall

Sources == {"stdout", "stderr"}

\* StartProcess (runner.go 225-236, 254-255): an empty buffer, two readers.
InitOut ==
    /\ outputLines = <<>>
    /\ total = 0
    /\ capPc = [r \in Sources |-> "scan"]
    /\ bufMu = "free"
    /\ observed = [lines |-> <<>>, total |-> 0]

\* Nothing has run: no pane of crux, no roster file.
InitRuns ==
    /\ runNo = 0
    /\ rpc = "idle"
    /\ paneIDs = <<>>
    /\ alive = {}
    /\ roster = {}
    /\ startOnes = 0
    /\ failedSvc = 0
    /\ lastEnd = "none"

\* No request has arrived, s.mu is free.
InitLock ==
    /\ hreq = [r \in 1..MaxReqs |-> [kind |-> "none", pc |-> "none", holds |-> FALSE]]
    /\ setter = "idle"

\* No goroutine is at the registry.
InitReg ==
    /\ racc = [r \in 1..MaxReqs |-> [op |-> "none", pc |-> "none", raced |-> FALSE]]
    /\ regFault = FALSE

\* No spawn is in progress.
NoSpawn ==
    [pc |-> "idle", title |-> "", win |-> "", pane |-> "", via |-> "",
     attempts |-> 0, fails |-> 0, slept |-> 0, result |-> ""]

InitSpawn == sp = NoSpawn

\* KillPrevious is not running.
NoKill ==
    [pc |-> "idle", lines |-> <<>>, idx |-> 0, issued |-> <<>>,
     results |-> <<>>, file |-> FALSE]

InitKill == kp = NoKill

\* A send that has not been called.
NoSend ==
    [pc |-> "none", result |-> "", elapsed |-> 0, wr |-> "none", done |-> "",
     delivered |-> FALSE]

\* Nothing has been sent, the worker has not opened its pipe.
InitPipe ==
    /\ sends = [i \in 1..MaxSends |-> NoSend]
    /\ reader = FALSE

\* wezterm has no pane, crux has not run.
InitWin ==
    /\ wpanes = {}
    /\ wnext = 0
    /\ wtracked = {}
    /\ wroster = {}
    /\ wopened = FALSE
    /\ wkilled = {}

\* The run is serving: main waits for a signal, no shutdown was requested.
InitDown ==
    /\ cleaners = [k \in 0..MaxStopReqs |-> [pc |-> "no", killed |-> 0]]
    /\ downExit = FALSE

Init == InitPM /\ InitClients /\ InitLog /\ InitMainIdle /\ InitSessions /\ InitCrash /\ InitStop /\ InitBridge /\ InitOut /\ InitRuns /\ InitLock /\ InitReg /\ InitSpawn /\ InitKill /\ InitPipe /\ InitWin /\ InitDown

----------------------------------------------------------------------------
(* ProcessManager.StartProcess *)

\* line 191: the "already exists" check.
ExistsNever(id) == FALSE
Exists(id) == processes[id] # 0

\* StartProcess returns r at once to the call c that made it: a client's
\* call is over, Restart (line 148) goes on with the result.
ReturnAtOnce(c, r) ==
    IF c.op = "Restart"
      THEN Move(c, [c EXCEPT !.pc = "restart_ret", !.res = r])
      ELSE UNCHANGED calls

\* The call c goes on to cmd.Start() for the new object i.
GoLaunch(c, i) ==
    IF c.op = "Restart"
      THEN Move(c, [c EXCEPT !.pc = "start_launch", !.cur = i])
      ELSE Begin([c EXCEPT !.pc = "start_launch", !.cur = i])

\* Lines 187-238, made by call c: lock, existence check, pipes, entry
\* creation.
StartProcessBegin(id, c) ==
    /\ ~pmMu
    /\ IF Exists(id)
         THEN /\ ev' = Event("StartProcess", id, 0, "exists", "", FALSE)
              /\ ReturnAtOnce(c, "exists")
              /\ UNCHANGED pmVars
         ELSE \/ \* a pipe could not be created (lines 204-223)
                 /\ ev' = Event("StartProcess", id, 0, "pipe_failed", "", FALSE)
                 /\ ReturnAtOnce(c, "pipe_failed")
                 /\ UNCHANGED pmVars
              \/ \* the entry is created in StateStarting and registered
                 /\ nInst < MaxInst
                 /\ LET i == nInst + 1 IN
                    /\ nInst' = i
                    /\ pID' = [pID EXCEPT ![i] = id]
                    /\ State' = [State EXCEPT ![i] = StateStarting]
                    /\ streams' = [streams EXCEPT ![i] = AllOpen]
                    /\ ctxDone' = [ctxDone EXCEPT ![i] = FALSE]
                    /\ processes' = [processes EXCEPT ![id] = i]
                    /\ pmMu' = TRUE
                    /\ GoLaunch(c, i)
                    /\ ev' = Tau
                    /\ UNCHANGED <<mu, osProc, stopCancels,
                                   stopKills, stopCloses, monPc>>

\* A client calls pm.StartProcess(id, ...).
StartProcess(id) ==
    /\ CanCall
    /\ StartProcessBegin(id, Call("", "StartProcess", 0))
    /\ UNCHANGED offPM

\* StartProcess returns r: to the client, or to Restart (line 148).
StartReturn(c, r) ==
    IF c.op = "Restart"
      THEN Move(c, [c EXCEPT !.pc = "restart_ret", !.res = r, !.cur = 0])
      ELSE End(c)

\* Lines 241-260: cmd.Start() succeeds; the goroutines are started.
StartLaunchOk(c) ==
    /\ c.pc = "start_launch"
    /\ LET i == c.cur IN
       /\ State' = [State EXCEPT ![i] = StateRunning]
       /\ osProc' = [osProc EXCEPT ![i] = "alive"]
       /\ monPc' = [monPc EXCEPT ![i] = "waiting"]
       /\ pmMu' = FALSE
       /\ ev' = Event("StartProcess", pID[i], i, "ok", "", FALSE)
       /\ StartReturn(c, "ok")
    /\ UNCHANGED <<processes, nInst, pID, mu, ctxDone, streams,
                   stopCancels, stopKills, stopCloses, offPM>>

\* Line 248: delete(pm.processes, id).
Kept(id) == processes
Discarded(id) == [processes EXCEPT ![id] = 0]

\* Lines 241-249: cmd.Start() fails; the entry is marked and discarded.  No
\* pointer to the object remains: its slot is free for the next object.
StartLaunchFail(c) ==
    /\ c.pc = "start_launch"
    /\ LET i == c.cur IN
       /\ State' = [State EXCEPT ![i] = StateError]
       /\ ctxDone' = [ctxDone EXCEPT ![i] = TRUE]
       /\ streams' = [streams EXCEPT ![i] = AllClosed]
       /\ processes' = Discarded(pID[i])
       /\ nInst' = i - 1
       /\ pmMu' = FALSE
       /\ ev' = Event("StartProcess", pID[i], 0, "launch_failed", "", FALSE)
       /\ StartReturn(c, "launch_failed")
    /\ UNCHANGED <<pID, mu, osProc, stopCancels, stopKills,
                   stopCloses, monPc, offPM>>

----------------------------------------------------------------------------
(* ManagedProcess.Stop *)

\* A call entering Stop on instance i (the lock is taken in StopEnter).
InStop(c, i) ==
    [c EXCEPT !.pc = "stop_enter", !.cur = i, !.was = (State[i] = StateRunning)]

\* proc.Stop() on a pointer the caller holds.
CallStop(i) ==
    /\ CanCall
    /\ i \in Handles
    /\ Begin(InStop(Call("", "Stop", i), i))
    /\ ev' = Tau
    /\ UNCHANGED <<pmVars, offPM>>

\* Lines 264-274: pm.StopProcess(id).
StopProcess(id) ==
    /\ CanCall
    /\ ~pmMu
    /\ IF processes[id] = 0
         THEN /\ ev' = Event("StopProcess", id, 0, "not_found", "", FALSE)
              /\ UNCHANGED calls
         ELSE /\ Begin(InStop(Call("", "Stop", processes[id]), processes[id]))
              /\ ev' = Tau
    /\ UNCHANGED <<pmVars, offPM>>

\* Line 326: the idempotence guard.
StopGuardNone(i) == FALSE
StopGuardStoppingOnly(i) == State[i] = StateStopping
StopGuard(i) == State[i] = StateStopped \/ State[i] = StateStopping

\* Lines 333-335: the contexts p.Cancel() cancels.
CancelEvery(i) == Handles
CancelTargets(i) == {i}

\* Line 365: the state Stop leaves.
StopFinalError == StateError
StopFinalState == StateStopped

\* Lines 355-363: the streams after Stop's Close calls.
ClosedByStop(i) == AllClosed

\* Stop returns nil: to the client, to StopAll's loop (line 313) or to
\* Restart (line 87).
StopReturn(c) ==
    /\ ev' = Event("Stop", "", c.cur, "nil", "", c.was)
    /\ CASE c.op = "StopAll" ->
              Move(c, [c EXCEPT !.pc = "all_loop", !.cur = 0, !.was = FALSE])
         [] c.op = "Restart" ->
              Move(c, [c EXCEPT !.pc = "restart_build", !.cur = 0])
         [] OTHER -> End(c)

\* Lines 323-335: lock, guard, Stopping, cancel.
StopEnter(c) ==
    /\ c.pc = "stop_enter"
    /\ ~mu[c.cur]
    /\ LET i == c.cur IN
       IF StopGuard(i)
         THEN /\ StopReturn(c)
              /\ UNCHANGED pmVars
         ELSE /\ State' = [State EXCEPT ![i] = StateStopping]
              /\ ctxDone' = [j \in Insts |->
                               IF j \in CancelTargets(i) THEN TRUE ELSE ctxDone[j]]
              /\ stopCancels' = [stopCancels EXCEPT ![i] = @ + 1]
              /\ mu' = [mu EXCEPT ![i] = TRUE]
              /\ Move(c, [c EXCEPT !.pc = "stop_wait"])
              /\ ev' = Tau
              /\ UNCHANGED <<processes, pmMu, nInst, pID, osProc, streams,
                             stopKills, stopCloses, monPc>>
    /\ UNCHANGED offPM

\* Lines 355-366: close the streams, Stopped, unlock, return nil.
StopFinish(c) ==
    /\ LET i == c.cur IN
       /\ streams' = [streams EXCEPT ![i] = ClosedByStop(i)]
       /\ stopCloses' = [stopCloses EXCEPT ![i] = @ + 1]
       /\ State' = [State EXCEPT ![i] = StopFinalState]
       /\ mu' = [mu EXCEPT ![i] = FALSE]
    /\ StopReturn(c)

\* Lines 342-344: the p.Cmd.Wait() made by Stop returns, and done receives,
\* once the process (in state proc) has exited: with its status, or with an
\* error if the Wait of monitorExit has taken or is taking it.
WaitOnlyFirst(i, proc) == proc = "exited" /\ monPc[i] = "waiting"
WaitReturns(i, proc) == proc = "exited"

\* Lines 340-347 and 355-366: Cmd.Wait() returned within the 5 seconds (it
\* closes the parent's ends of the pipes); nothing blocks from there to the
\* return.
StopWaitDone(c) ==
    /\ c.pc = "stop_wait"
    /\ WaitReturns(c.cur, osProc[c.cur])
    /\ StopFinish(c)
    /\ UNCHANGED <<processes, pmMu, nInst, pID, osProc, ctxDone,
                   stopCancels, stopKills, monPc, offPM>>

\* Lines 348-352 and 355-366: the 5 second timer fired first: Kill, <-done,
\* then as above.
StopTimeout(c) ==
    /\ c.pc = "stop_wait"
    /\ stopKills' = [stopKills EXCEPT ![c.cur] = @ + 1]
    /\ osProc' = [osProc EXCEPT ![c.cur] = "exited"]
    /\ WaitReturns(c.cur, "exited")
    /\ StopFinish(c)
    /\ UNCHANGED <<processes, pmMu, nInst, pID, ctxDone,
                   stopCancels, monPc, offPM>>

----------------------------------------------------------------------------
(* ProcessManager.StopAll *)

\* Lines 304-309: the snapshot taken under the read lock.
StopAllSnapshot == Registered

\* Lines 312-316: what is left to visit after proc i (the loop goes on
\* whatever Stop returned).
StopAllBreak(c, i) == {}
StopAllRemaining(c, i) == c.todo \ {i}

StopAll ==
    /\ CanCall
    /\ ~pmMu
    /\ Begin([Call("all_loop", "StopAll", 0) EXCEPT
                !.snap = StopAllSnapshot, !.todo = StopAllSnapshot])
    /\ ev' = Tau
    /\ UNCHANGED <<pmVars, offPM>>

\* One iteration: map iteration order is unspecified, so any remaining proc.
StopAllStep(c) ==
    /\ c.pc = "all_loop"
    /\ c.todo # {}
    /\ \E i \in c.todo :
         Move(c, [InStop(c, i) EXCEPT !.todo = StopAllRemaining(c, i)])
    /\ ev' = Tau
    /\ UNCHANGED <<pmVars, offPM>>

\* Line 318: return lastErr (Stop only ever returns nil).
StopAllReturn(c) ==
    /\ c.pc = "all_loop"
    /\ c.todo = {}
    /\ ev' = Event("StopAll", "", 0, "nil", "", FALSE)
    /\ End(c)
    /\ UNCHANGED <<pmVars, offPM>>

----------------------------------------------------------------------------
(* ManagedProcess.SendInput *)

\* Line 374: the state check.
SendAllowedAlways(i) == TRUE
SendAllowed(i) == State[i] = StateRunning

\* Line 378: the bytes handed to Stdin.Write.
PayloadNoNewline(input) == input
Payload(input) == input \o "\n"

\* Stdin.Write delivers only while our end of the pipe is open and the
\* process still reads it; otherwise it returns an error (returned as err).
WriteDelivers(i) == streams[i].Stdin /\ osProc[i] = "alive"

\* Lines 370-380.  The call takes the read lock and never blocks while it
\* holds it, so it is one step of whichever goroutine makes it.
SendInput(i, input) ==
    /\ i \in Handles
    /\ ~mu[i]
    /\ ev' = IF ~SendAllowed(i)
               THEN Event("SendInput", input, i, "not_running", "", FALSE)
             ELSE IF WriteDelivers(i)
               THEN Event("SendInput", input, i, "nil", Payload(input), FALSE)
               ELSE Event("SendInput", input, i, "write_error", "", FALSE)
    /\ UNCHANGED <<pmVars, calls, offPM>>

----------------------------------------------------------------------------
(* BackendHandler.Restart *)

\* Lines 85-92: GetProcess, IsRunning, Stop.
RestartBegin ==
    /\ CanCall
    /\ ~pmMu
    /\ LET proc == processes[procID] IN
       /\ proc # 0 => ~mu[proc]
       /\ IF proc # 0 /\ State[proc] = StateRunning
            THEN Begin(InStop(Call("", "Restart", proc), proc))
            ELSE Begin(Call("restart_build", "Restart", 0))
    /\ ev' = Tau
    /\ UNCHANGED <<pmVars, offPM>>

\* Lines 94-117: the build step (skipped for a Python backend) succeeded.
RestartBuildOk(c) ==
    /\ c.pc = "restart_build"
    /\ Move(c, [c EXCEPT !.pc = "restart_start"])
    /\ ev' = Tau
    /\ UNCHANGED <<pmVars, offPM>>

\* Lines 111-114: the build failed.
RestartBuildFail(c) ==
    /\ c.pc = "restart_build"
    /\ End(c)
    /\ ev' = Event("Restart", procID, 0, "build_failed", "", c.was)
    /\ UNCHANGED <<pmVars, offPM>>

\* Line 148: bh.manager.StartProcess(bh.procID, ...).
RestartStart(c) ==
    /\ c.pc = "restart_start"
    /\ StartProcessBegin(procID, c)
    /\ UNCHANGED offPM

\* Line 149: return err.
RestartReturn(c) ==
    /\ c.pc = "restart_ret"
    /\ ev' = Event("Restart", procID, processes[procID], c.res, "", c.was)
    /\ End(c)
    /\ UNCHANGED <<pmVars, offPM>>

----------------------------------------------------------------------------
(* The OS process, the exec context watcher, monitorExit *)

\* The process exits by itself.
ProcExit(i) ==
    /\ osProc[i] = "alive"
    /\ osProc' = [osProc EXCEPT ![i] = "exited"]
    /\ ev' = Tau
    /\ UNCHANGED <<processes, pmMu, nInst, pID, State, mu, ctxDone, streams,
                   stopCancels, stopKills, stopCloses, monPc, calls, offPM>>

\* exec.CommandContext (line 196): the process is killed once ctx is done.
CtxKill(i) ==
    /\ osProc[i] = "alive"
    /\ ctxDone[i]
    /\ osProc' = [osProc EXCEPT ![i] = "exited"]
    /\ ev' = Tau
    /\ UNCHANGED <<processes, pmMu, nInst, pID, State, mu, ctxDone, streams,
                   stopCancels, stopKills, stopCloses, monPc, calls, offPM>>

\* Line 418: p.Cmd.Wait() returns in monitorExit (and closes the pipes).
MonitorWait(i) ==
    /\ monPc[i] = "waiting"
    /\ osProc[i] = "exited"
    /\ monPc' = [monPc EXCEPT ![i] = "locking"]
    /\ streams' = [streams EXCEPT ![i] = AllClosed]
    /\ ev' = Tau
    /\ UNCHANGED <<processes, pmMu, nInst, pID, State, mu, osProc, ctxDone,
                   stopCancels, stopKills, stopCloses, calls, offPM>>

\* Lines 420-422: the state monitorExit leaves.
MonitorAlways(i) == StateStopped
MonitorNever(i) == State[i]
MonitorNewState(i) == IF State[i] = StateRunning THEN StateStopped ELSE State[i]

\* Lines 419-423: lock, conditional update, unlock.
MonitorUpdate(i) ==
    /\ monPc[i] = "locking"
    /\ ~mu[i]
    /\ State' = [State EXCEPT ![i] = MonitorNewState(i)]
    /\ monPc' = [monPc EXCEPT ![i] = "done"]
    /\ ev' = Tau
    /\ UNCHANGED <<processes, pmMu, nInst, pID, mu, osProc, ctxDone, streams,
                   stopCancels, stopKills, stopCloses, calls, offPM>>

----------------------------------------------------------------------------
\* StartProcess, Stop, StopProcess and the goroutines and processes behind
\* them.
NextLifecycle ==
    \/ \E id \in IDs : StartProcess(id)
    \/ \E c \in InFlight : StartLaunchOk(c)
    \/ \E c \in InFlight : StartLaunchFail(c)
    \/ \E i \in Insts : CallStop(i)
    \/ \E id \in IDs : StopProcess(id)
    \/ \E c \in InFlight : StopEnter(c)
    \/ \E c \in InFlight : StopWaitDone(c)
    \/ \E c \in InFlight : StopTimeout(c)
    \/ \E i \in Insts : ProcExit(i)
    \/ \E i \in Insts : CtxKill(i)
    \/ \E i \in Insts : MonitorWait(i)
    \/ \E i \in Insts : MonitorUpdate(i)

NextStopAll ==
    \/ StopAll
    \/ \E c \in InFlight : StopAllStep(c)
    \/ \E c \in InFlight : StopAllReturn(c)

NextSend ==
    \E i \in Insts, input \in Inputs : SendInput(i, input)

NextRestart ==
    \/ RestartBegin
    \/ \E c \in InFlight : RestartBuildOk(c)
    \/ \E c \in InFlight : RestartBuildFail(c)
    \/ \E c \in InFlight : RestartStart(c)
    \/ \E c \in InFlight : RestartReturn(c)

NextPM == NextLifecycle \/ NextStopAll

\* One process, started once, stopped by any number of callers, under the
\* scheduling Go gives: a goroutine that can take a step takes it.
NextLive ==
    \/ StartProcess(procID)
    \/ \E c \in InFlight : StartLaunchOk(c)
    \/ \E c \in InFlight : StartLaunchFail(c)
    \/ \E i \in Insts : CallStop(i)
    \/ StopProcess(procID)
    \/ \E c \in InFlight : StopEnter(c)
    \/ \E c \in InFlight : StopWaitDone(c)
    \/ \E c \in InFlight : StopTimeout(c)
    \/ \E i \in Insts : ProcExit(i)
    \/ \E i \in Insts : CtxKill(i)
    \/ \E i \in Insts : MonitorWait(i)
    \/ \E i \in Insts : MonitorUpdate(i)

\* Calls in progress go on (the launch returns, a Stop that can take the
\* lock takes it, the 5 second timer fires, done is received), the context
\* watcher kills, and monitorExit runs.  Nothing makes a client call, and
\* nothing makes a process exit by itself.
FairLive ==
    /\ WF_vars(\E c \in InFlight : StartLaunchOk(c) \/ StartLaunchFail(c))
    /\ WF_vars(\E c \in InFlight : StopEnter(c))
    /\ WF_vars(\E c \in InFlight : StopWaitDone(c))
    /\ WF_vars(\E c \in InFlight : StopTimeout(c))
    /\ WF_vars(\E i \in Insts : CtxKill(i))
    /\ WF_vars(\E i \in Insts : MonitorWait(i))
    /\ WF_vars(\E i \in Insts : MonitorUpdate(i))

SpecLive == Init /\ [][NextLive]_vars /\ FairLive

SpecPM == Init /\ [][NextPM]_vars

\* The same manager with clients that also send input.
SpecSend == Init /\ [][NextLifecycle \/ NextSend]_vars

\* The same manager driven through BackendHandler.Restart as well.
SpecRestart == Init /\ [][NextLifecycle \/ NextRestart]_vars

----------------------------------------------------------------------------
(* wrapCommand: the wrapper script, one run after another on one service *)

\* `tail -n +11`: the number of run files the clean-up line keeps.
KeepRuns == 10

RECURSIVE Without(_, _)
Without(q, x) ==
    IF q = <<>> THEN <<>>
    ELSE IF Head(q) = x THEN Without(Tail(q), x)
    ELSE <<Head(q)>> \o Without(Tail(q), x)

Names(q) == {q[k] : k \in 1..Len(q)}

\* ls -t | grep -v latest.log | tail -n +11 | xargs rm -f: all but the
\* KeepRuns most recently modified run files are removed.
Pruned(q) ==
    IF Len(q) <= KeepRuns THEN q ELSE SubSeq(q, Len(q) - KeepRuns + 1, Len(q))

\* mkdir -p; TIMESTAMP=$(date +%Y-%m-%d_%H%M%S); LOG_FILE=...
WStart ==
    /\ wpc = "idle"
    /\ wTimestamp' = clock
    /\ wpc' = "stamped"
    /\ UNCHANGED <<runFiles, latest, clock, offLog>>

\* rm -f "$LOG_DIR/latest.log"
WRemove ==
    /\ wpc = "stamped"
    /\ latest' = 0
    /\ wpc' = "removed"
    /\ UNCHANGED <<runFiles, clock, wTimestamp, offLog>>

\* ln -s "$LOG_FILE" "$LOG_DIR/latest.log"
WLink ==
    /\ wpc = "removed"
    /\ latest' = wTimestamp
    /\ wpc' = "linked"
    /\ UNCHANGED <<runFiles, clock, wTimestamp, offLog>>

\* The clean-up line.
WPrune ==
    /\ wpc = "linked"
    /\ runFiles' = Pruned(runFiles)
    /\ wpc' = "pruned"
    /\ UNCHANGED <<latest, clock, wTimestamp, offLog>>

\* echo ... | tee "$LOG_FILE": the run file is created (or truncated, when
\* a run of the same second left one) and is now the most recently modified.
WCreate ==
    /\ wpc = "pruned"
    /\ runFiles' = Append(Without(runFiles, wTimestamp), wTimestamp)
    /\ wpc' = "running"
    /\ UNCHANGED <<latest, clock, wTimestamp, offLog>>

\* The command ends; the exit line has been appended with tee -a.
WExit ==
    /\ wpc = "running"
    /\ wpc' = "idle"
    /\ UNCHANGED <<runFiles, latest, clock, wTimestamp, offLog>>

\* A second passes.
Tick ==
    /\ clock < MaxClock
    /\ clock' = clock + 1
    /\ UNCHANGED <<runFiles, latest, wpc, wTimestamp, offLog>>

NextLog == WStart \/ WRemove \/ WLink \/ WPrune \/ WCreate \/ WExit \/ Tick

SpecLog == Init /\ [][NextLog]_vars

----------------------------------------------------------------------------
(* main and the dependency gate: PlaygroundConfig.CheckDependencies *)

DefaultTimeout == 30     \* config.go 172
PollInterval   == 2      \* config.go 237: time.Sleep(2 * time.Second)

\* dep.Start: absent, a foreground command, a command that backgrounds
\* itself.  dep.Timeout: 0 = not given.
Starts   == {"", "cmd", "cmd &"}
Timeouts == {0, 3, 4}
Dep      == [start : Starts, timeout : Timeouts]

\* After LoadPlaygroundConfig and the parsing of the arguments (main 38-97).
InitMain ==
    /\ mode \in {"run", "start-one"}
    /\ deps \in UNION {[1..n -> Dep] : n \in 0..MaxDeps}
    /\ gpc = "main"
    /\ depIdx = 0
    /\ elapsed = 0
    /\ attempts = 0
    /\ checksRun = 0
    /\ firstOk = "none"
    /\ checked = 0
    /\ nReady = 0
    /\ lastDur = 0
    /\ gateRes = "none"
    /\ errDep = 0
    /\ spawned = 0

InitGate == InitPM /\ InitClients /\ InitLog /\ InitMain /\ InitSessions /\ InitCrash /\ InitStop /\ InitBridge /\ InitOut /\ InitRuns /\ InitLock /\ InitReg /\ InitSpawn /\ InitKill /\ InitPipe /\ InitWin /\ InitDown

\* Lines 170-173: the timeout in force.
Timeout(dep) == IF dep.timeout = 0 THEN DefaultTimeout ELSE dep.timeout

\* Line 185: dep.Start == "".
NoStart(dep) == dep.start = ""

\* Line 197: strings.HasSuffix(strings.TrimSpace(dep.Start), "&").
Background(dep) == dep.start = "cmd &"

\* Line 236: time.Now().Before(deadline), e seconds after the deadline was
\* set to t seconds ahead.
BeforeDeadlineOrAt(e, t) == e <= t
BeforeDeadlineEarly(e, t) == e + PollInterval < t
BeforeDeadline(e, t) == e < t

\* CheckDependencies 159: if err := checkDependency(dep); err != nil.
AbortsNever(res) == FALSE
Aborts(res) == res # "nil"

\* main 110: if err := cfg.CheckDependencies(); err != nil.
GateFailedNever(res) == FALSE
GateFailed(res) == res # "nil"

\* checkDependency returns res to the loop of CheckDependencies (158-165).
DepReturn(res) ==
    /\ errDep' = IF res # "nil" THEN depIdx ELSE errDep
    /\ IF Aborts(res)
         THEN gateRes' = res /\ gpc' = "gate_ret" /\ depIdx' = depIdx
         ELSE IF depIdx < Len(deps)
           THEN gateRes' = gateRes /\ gpc' = "check" /\ depIdx' = depIdx + 1
           ELSE gateRes' = "nil" /\ gpc' = "gate_ret" /\ depIdx' = depIdx

\* main 99-107: crux start-one <service> runs runStartOne and returns.
MainStartOne ==
    /\ gpc = "main"
    /\ mode = "start-one"
    /\ gpc' = "exit"
    /\ \/ spawned' = spawned + 1     \* SpawnTabInPane succeeded
       \/ spawned' = spawned         \* unknown service, no wezterm, no pane
    /\ UNCHANGED <<mode, deps, depIdx, elapsed, attempts, checksRun, firstOk,
                   checked, nReady, lastDur, gateRes, errDep, offGate>>

\* main 110 calls CheckDependencies (150-158).
GateEnter ==
    /\ gpc = "main"
    /\ mode = "run"
    /\ IF Len(deps) = 0
         THEN gateRes' = "nil" /\ gpc' = "gate_ret" /\ depIdx' = depIdx
         ELSE gateRes' = gateRes /\ gpc' = "check" /\ depIdx' = 1
    /\ UNCHANGED <<mode, deps, elapsed, attempts, checksRun, firstOk, checked,
                   nReady, lastDur, errDep, spawned, offGate>>

\* checkDependency 170-188: the first check.
DepCheck ==
    /\ gpc = "check"
    /\ \E ok \in BOOLEAN :
        /\ checked' = depIdx
        /\ checksRun' = 1
        /\ attempts' = 0
        /\ elapsed' = 0
        /\ lastDur' = 0
        /\ firstOk' = IF ok THEN "pass" ELSE "fail"
        /\ nReady' = IF ok THEN nReady + 1 ELSE nReady
        /\ IF ok THEN DepReturn("nil")
           ELSE IF NoStart(deps[depIdx]) THEN DepReturn("no_start")
           ELSE gpc' = "start" /\ UNCHANGED <<depIdx, gateRes, errDep>>
    /\ UNCHANGED <<mode, deps, spawned, offGate>>

\* checkDependency 193-235: the start command, then the deadline is set.
DepStart ==
    /\ gpc = "start"
    /\ \E out, again \in {"ok", "err"} :
        IF out = "ok" \/ (Background(deps[depIdx]) /\ again = "ok")
          THEN gpc' = "poll" /\ UNCHANGED <<depIdx, gateRes, errDep>>
          ELSE DepReturn("start_failed")
    /\ UNCHANGED <<mode, deps, elapsed, attempts, checksRun, firstOk, checked,
                   nReady, lastDur, spawned, offGate>>

\* Line 239: if runCheck(dep.Check).
PassedNever(ok) == FALSE
Passed(ok) == ok

\* checkDependency 236-243: one turn of the polling loop; the check takes d
\* seconds.
Poll ==
    /\ gpc = "poll"
    /\ BeforeDeadline(elapsed, Timeout(deps[depIdx]))
    /\ \E ok \in BOOLEAN, d \in 0..MaxCheckDur :
        /\ elapsed' = elapsed + PollInterval + d
        /\ lastDur' = d
        /\ attempts' = attempts + 1
        /\ checksRun' = checksRun + 1
        /\ nReady' = IF ok THEN nReady + 1 ELSE nReady
        /\ IF Passed(ok) THEN DepReturn("nil")
           ELSE UNCHANGED <<gpc, depIdx, gateRes, errDep>>
    /\ UNCHANGED <<mode, deps, firstOk, checked, spawned, offGate>>

\* checkDependency 236, 245-246: the deadline has passed.
PollTimeout ==
    /\ gpc = "poll"
    /\ ~BeforeDeadline(elapsed, Timeout(deps[depIdx]))
    /\ DepReturn("timeout")
    /\ UNCHANGED <<mode, deps, elapsed, attempts, checksRun, firstOk, checked,
                   nReady, lastDur, spawned, offGate>>

\* main 110-113: exit(1) on a gate error.
MainAfterGate ==
    /\ gpc = "gate_ret"
    /\ gpc' = IF GateFailed(gateRes) THEN "exit" ELSE "validate"
    /\ UNCHANGED <<mode, deps, depIdx, elapsed, attempts, checksRun, firstOk,
                   checked, nReady, lastDur, gateRes, errDep, spawned, offGate>>

\* main 116-140: every service command exists, or exit(1).
Validate ==
    /\ gpc = "validate"
    /\ gpc' \in {"spawn", "exit"}
    /\ UNCHANGED <<mode, deps, depIdx, elapsed, attempts, checksRun, firstOk,
                   checked, nReady, lastDur, gateRes, errDep, spawned, offGate>>

\* runWithWezterm 262-289 / StartWithTabs: the services are spawned one
\* after another; a failure ends the invocation.
SpawnNext ==
    /\ gpc = "spawn"
    /\ spawned < NumServices
    /\ \/ /\ spawned' = spawned + 1
          /\ gpc' = IF spawned + 1 = NumServices THEN "serving" ELSE "spawn"
       \/ /\ spawned' = spawned
          /\ gpc' = "exit"
    /\ UNCHANGED <<mode, deps, depIdx, elapsed, attempts, checksRun, firstOk,
                   checked, nReady, lastDur, gateRes, errDep, offGate>>

NextGate ==
    \/ MainStartOne
    \/ GateEnter
    \/ DepCheck
    \/ DepStart
    \/ Poll
    \/ PollTimeout
    \/ MainAfterGate
    \/ Validate
    \/ SpawnNext

SpecGate == InitGate /\ [][NextGate]_vars

----------------------------------------------------------------------------
(* Addressing a session: weztermTabController.resolvePane (ControlPlane)   *)
(* and findTab (Agent Bridge)                                              *)

Upper  == "ABCDEFGHIJKLMNOPQRSTUVWXYZ"
Lower  == "abcdefghijklmnopqrstuvwxyz"
Digits == "0123456789"

Char(s, i) == SubSeq(s, i, i)

\* strings.ToLower, on ASCII.
LowerChar(c) ==
    IF \E k \in 1..Len(Upper) : Char(Upper, k) = c
      THEN Char(Lower, CHOOSE k \in 1..Len(Upper) : Char(Upper, k) = c)
      ELSE c

RECURSIVE ToLower(_)
ToLower(s) ==
    IF s = "" THEN "" ELSE LowerChar(Char(s, 1)) \o ToLower(SubSeq(s, 2, Len(s)))

\* strings.Contains
Contains(s, sub) ==
    \E i \in 1..(Len(s) - Len(sub) + 1) : SubSeq(s, i, i + Len(sub) - 1) = sub

IsDigit(c) == \E k \in 1..Len(Digits) : Char(Digits, k) = c
DigitVal(c) == (CHOOSE k \in 1..Len(Digits) : Char(Digits, k) = c) - 1

RECURSIVE DecVal(_)
DecVal(s) ==
    IF s = "" THEN 0
    ELSE DecVal(SubSeq(s, 1, Len(s) - 1)) * 10 + DigitVal(Char(s, Len(s)))

\* strconv.Atoi: an optional sign, then decimal digits.
Atoi(s) ==
    LET signed == Len(s) > 0 /\ Char(s, 1) \in {"+", "-"}
        body   == IF signed THEN SubSeq(s, 2, Len(s)) ELSE s
        ok     == Len(body) > 0 /\ \A i \in 1..Len(body) : IsDigit(Char(body, i))
    IN  [ok  |-> ok,
         val |-> IF ~ok THEN 0
                 ELSE IF signed /\ Char(s, 1) = "-" THEN 0 - DecVal(body)
                 ELSE DecVal(body)]

Min(S) == CHOOSE x \in S : \A y \in S : x <= y

\* ToLower and Atoi of the titles and references in use, computed once.
Lowered == [s \in Titles \cup Refs |-> ToLower(s)]
Parsed  == [s \in Refs |-> Atoi(s)]

PaneIds(listing) == {listing[k].id : k \in 1..Len(listing)}

\* findTab 322-327: the title contains the reference, both lowered.
TitleMatch(title, ref) == Contains(Lowered[title], Lowered[ref])

\* resolvePane 80-82: EqualFold, or the lowered title contains the lowered
\* service.
PaneMatch(title, service) ==
    \/ Lowered[title] = Lowered[service]                \* strings.EqualFold
    \/ Contains(Lowered[title], Lowered[service])

\* findTab 329-334: "tab '<ref>' not found. Available: [1:<title> ...]".
Available(listing) ==
    [k \in 1..Len(listing) |-> ToString(k) \o ":" \o listing[k].title]

\* findTab 309-335 on a listing: the pane found (0 = none), the error, the
\* names the error lists.
findTab(tabRef, listing) ==
    LET n       == Len(listing)
        tabNum  == Parsed[tabRef]
        matches == {k \in 1..n : TitleMatch(listing[k].title, tabRef)}
    IN  IF n = 0
          THEN [target |-> 0, err |-> "no_tabs", names |-> <<>>]
        ELSE IF tabNum.ok /\ tabNum.val >= 1 /\ tabNum.val - 1 < n
          THEN [target |-> listing[tabNum.val].id, err |-> "", names |-> <<>>]
        ELSE IF matches # {}
          THEN [target |-> listing[Min(matches)].id, err |-> "", names |-> <<>>]
        ELSE [target |-> 0, err |-> "not_found", names |-> Available(listing)]

\* GetServicePane (part_010:381-383): a map lookup; "" for an unknown name.
GetServicePane(service) ==
    IF service \in DOMAIN servicePanes THEN servicePanes[service] ELSE 0

\* resolvePane 76-86, after a miss in servicePanes: the first pane of the
\* listing that matches (0 = "").
resolveListed(service, listing) ==
    LET matches == {k \in 1..Len(listing) : PaneMatch(listing[k].title, service)}
    IN  IF matches = {} THEN 0 ELSE listing[Min(matches)].id

\* What the backend answers to an action on pane id.
Acted(id) == IF id \in PaneIds(panes) THEN "" ELSE "backend_error"

\* StartWithTabs, or the start-one handler of the API: the launcher spawns a
\* tab titled t and records its pane (part_010:200-203, 351-352).
CruxSpawn(t) ==
    /\ nPanes < MaxPaneId
    /\ nPanes' = nPanes + 1
    /\ panes' = Append(panes, [title |-> t, id |-> nPanes + 1])
    /\ servicePanes' = [servicePanes EXCEPT ![t] = nPanes + 1]
    /\ rev' = NoResolution
    /\ UNCHANGED offRes

\* Another invocation (crux start-one <service>, part_001:245-250) or the
\* user opens a tab titled t: this launcher's servicePanes knows nothing.
ExternalSpawn(t) ==
    /\ nPanes < MaxPaneId
    /\ nPanes' = nPanes + 1
    /\ panes' = Append(panes, [title |-> t, id |-> nPanes + 1])
    /\ rev' = NoResolution
    /\ UNCHANGED <<servicePanes, offRes>>

\* A tab is closed from outside.
ExternalClose(k) ==
    /\ k \in 1..Len(panes)
    /\ panes' = SubSeq(panes, 1, k - 1) \o SubSeq(panes, k + 1, Len(panes))
    /\ rev' = NoResolution
    /\ UNCHANGED <<nPanes, servicePanes, offRes>>

\* handleSend / handleLogs / handleFocus -> tc.Send / GetLogs / Focus
\* (part_002:38-63) -> resolvePane (70-87), then the action on the pane.
ApiOp(op, service) ==
    /\ IF service = ""
         THEN \* "Service name required" (server.go 185-189)
              rev' = Resolution("api", op, service, 0, "bad_request", <<>>, FALSE)
       ELSE IF GetServicePane(service) # 0
         THEN rev' = Resolution("api", op, service, GetServicePane(service),
                                Acted(GetServicePane(service)), <<>>, FALSE)
         ELSE \/ \* ListPanesWithTitles failed
                 rev' = Resolution("api", op, service, 0, "not_found", <<>>, FALSE)
              \/ LET id == resolveListed(service, panes) IN
                 rev' = Resolution("api", op, service, id,
                                   IF id = 0 THEN "not_found" ELSE "",
                                   <<>>, TRUE)
    /\ UNCHANGED <<panes, nPanes, servicePanes, offRes>>

\* crux_send / crux_logs / crux_focus -> sendToTab / getTabLogs / focusTab
\* (mcp/main.go 369-435) -> findTab (303-335), then the action on the pane.
BridgeOp(op, tabRef) ==
    /\ \/ \* listPanes failed (304-307)
          rev' = Resolution("bridge", op, tabRef, 0, "list_failed", <<>>, FALSE)
       \/ LET f == findTab(tabRef, panes) IN
          rev' = Resolution("bridge", op, tabRef, f.target, f.err, f.names, TRUE)
    /\ UNCHANGED <<panes, nPanes, servicePanes, offRes>>

NextResolve ==
    \/ \E t \in Titles : CruxSpawn(t)
    \/ \E t \in Titles : ExternalSpawn(t)
    \/ \E k \in 1..MaxPaneId : ExternalClose(k)
    \/ \E op \in Ops, ref \in Refs : ApiOp(op, ref)
    \/ \E op \in Ops, ref \in Refs : BridgeOp(op, ref)

SpecResolve == Init /\ [][NextResolve]_vars

----------------------------------------------------------------------------
(* Crash detection: checkServiceFailures over the logs of wrapCommand *)

tailBytes == 2048

\* The text exitCodeInLogRe looks for, before the digits.
MarkerText == "Exited with code "

\* The exit codes written in decimal, and the sizes of the other output.
Codes   == {"0", "1", "130"}
OutLens == {2020, 2048}

\* A piece of a log: a marker "Exited with code <code>", or len bytes of
\* other text (which begins with no digit and holds no marker).
Marker(code) == [kind |-> "marker", code |-> code, len |-> Len(MarkerText) + Len(code)]
Output(len)  == [kind |-> "out", code |-> "", len |-> len]
Chunks == {Marker(c) : c \in Codes} \cup {Output(l) : l \in OutLens}

\* strconv.Atoi of the digits of each marker.
ExitCode == [c \in Codes |-> Atoi(c)]

RECURSIVE TotalLen(_)
TotalLen(chunks) ==
    IF chunks = <<>> THEN 0 ELSE Head(chunks).len + TotalLen(Tail(chunks))

\* Offset of the first byte of the k-th chunk.
Offset(chunks, k) == TotalLen(SubSeq(chunks, 1, k - 1))

\* tail := data[len(data)-tailBytes:] when data is longer than tailBytes.
TailStart(chunks) ==
    IF TotalLen(chunks) > tailBytes THEN TotalLen(chunks) - tailBytes ELSE 0

\* The markers that lie whole in the tail; one cut by the start of the tail
\* has lost its first bytes and does not match.
MarkersInTail(chunks) ==
    {k \in 1..Len(chunks) :
        chunks[k].kind = "marker" /\ Offset(chunks, k) >= TailStart(chunks)}

\* FindSubmatch: the leftmost match.
FindSubmatch(chunks) ==
    LET M == MarkersInTail(chunks)
    IN  IF M = {} THEN 0 ELSE Min(M)

\* os.ReadFile(latest.log) succeeds: the link exists and so does its target.
Readable(l) == l.st \in {"running", "exited"}

\* One iteration of the loop of checkServiceFailures: is name appended?
IsFailed(l) ==
    /\ Readable(l)
    /\ FindSubmatch(l.chunks) # 0
    /\ ExitCode[l.chunks[FindSubmatch(l.chunks)].code].val # 0

RECURSIVE FailedOf(_, _)
FailedOf(names, logs) ==
    IF names = <<>> THEN <<>>
    ELSE (IF IsFailed(logs[Head(names)]) THEN <<Head(names)>> ELSE <<>>)
         \o FailedOf(Tail(names), logs)

\* A step of a wrapper changes a log: what was scanned is no longer current.
LogStep(name, l) ==
    /\ svcLog' = [svcLog EXCEPT ![name] = l]
    /\ scanned' = FALSE
    /\ failed' = <<>>
    /\ UNCHANGED offCrash

\* rm -f latest.log; ln -s "$LOG_FILE" latest.log: the link dangles until
\* the first tee creates the file.
RunLink(name) ==
    /\ svcLog[name].st \in {"none", "exited"}
    /\ LogStep(name, [st |-> "linked", chunks |-> <<>>])

\* The header lines: tee creates the log file; the header holds no marker.
RunHeader(name) ==
    /\ svcLog[name].st = "linked"
    /\ LogStep(name, [st |-> "running", chunks |-> <<>>])

\* The service writes to its output, which tee appends to the log.
ServiceWrite(name, chunk) ==
    /\ svcLog[name].st = "running"
    /\ Len(svcLog[name].chunks) < MaxChunks
    /\ LogStep(name, [svcLog[name] EXCEPT !.chunks = Append(@, chunk)])

\* The service ends: echo "=== Exited with code $EXIT_CODE at ... ===".
RunExit(name, code) ==
    /\ svcLog[name].st = "running"
    /\ Len(svcLog[name].chunks) < MaxChunks
    /\ LogStep(name, [st |-> "exited",
                      chunks |-> Append(svcLog[name].chunks, Marker(code))])

\* checkServiceFailures(names)
Scan ==
    /\ ~scanned
    /\ scanned' = TRUE
    /\ failed' = FailedOf(ServiceNames, svcLog)
    /\ UNCHANGED <<svcLog, offCrash>>

NextCrash ==
    \/ \E n \in Services : RunLink(n)
    \/ \E n \in Services : RunHeader(n)
    \/ \E n \in Services, ch \in Chunks : ServiceWrite(n, ch)
    \/ \E n \in Services, c \in Codes : RunExit(n, c)
    \/ Scan

SpecCrash == Init /\ [][NextCrash]_vars

----------------------------------------------------------------------------
(* The shutdown endpoint: Server.handleStopAll and the onShutdown callback *)

\* The process serves requests until os.Exit.
Serving == teardown # "exited"

ShutdownStep(r, pc) ==
    /\ stopReqs' = [stopReqs EXCEPT ![r].pc = pc]

\* A client sends a request to /stop; net/http runs the handler in a
\* goroutine of its own.
ShutdownArrive(r, method) ==
    /\ Serving
    /\ stopReqs[r].pc = "none"
    /\ \A q \in StopReqIds : q < r => stopReqs[q].pc # "none"
    /\ stopReqs' = [stopReqs EXCEPT ![r] = [pc |-> "handling", method |-> method]]
    /\ UNCHANGED <<timers, teardown, offStop>>

\* Lines 544-547: any method but POST is answered 405 and nothing else.
ShutdownReject(r) ==
    /\ Serving
    /\ stopReqs[r].pc = "handling"
    /\ stopReqs[r].method # "POST"
    /\ ShutdownStep(r, "rejected")
    /\ UNCHANGED <<timers, teardown, offStop>>

\* Lines 549-555: the success response is encoded into the response writer,
\* which buffers it.
ShutdownEncode(r) ==
    /\ Serving
    /\ stopReqs[r].pc = "handling"
    /\ stopReqs[r].method = "POST"
    /\ ShutdownStep(r, "encoded")
    /\ UNCHANGED <<timers, teardown, offStop>>

\* Lines 557-563: the goroutine that sleeps and calls onShutdown is
\* launched, and the handler returns.
ShutdownReturn(r) ==
    /\ Serving
    /\ stopReqs[r].pc = "encoded"
    /\ ShutdownStep(r, "returned")
    /\ timers' = [timers EXCEPT ![r] = "sleeping"]
    /\ UNCHANGED <<teardown, offStop>>

\* After the handler returned net/http flushes the buffered response to the
\* connection: the response is now completely written to the client.
ShutdownFlush(r) ==
    /\ Serving
    /\ stopReqs[r].pc \in {"returned", "rejected"}
    /\ ShutdownStep(r, "flushed")
    /\ UNCHANGED <<timers, teardown, offStop>>

\* time.Sleep(100 * time.Millisecond) is over: the delay outlasts the return
\* of the handler that launched it and the flush of that handler's response.
SleepOver(r) == timers[r] = "sleeping" /\ stopReqs[r].pc = "flushed"

\* Line 561: s.onShutdown() starts: wez.Cleanup() (part_001:324).
TimerFire(r) ==
    /\ Serving
    /\ SleepOver(r)
    /\ timers' = [timers EXCEPT ![r] = "fired"]
    /\ teardown' = IF teardown = "no" THEN "cleanup" ELSE teardown
    /\ UNCHANGED <<stopReqs, offStop>>

\* part_001:325: os.Exit(0) ends the process and every goroutine in it.
TeardownExit ==
    /\ teardown = "cleanup"
    /\ teardown' = "exited"
    /\ UNCHANGED <<stopReqs, timers, offStop>>

NextStop ==
    \/ \E r \in StopReqIds, m \in Methods : ShutdownArrive(r, m)
    \/ \E r \in StopReqIds : ShutdownReject(r)
    \/ \E r \in StopReqIds : ShutdownEncode(r)
    \/ \E r \in StopReqIds : ShutdownReturn(r)
    \/ \E r \in StopReqIds : ShutdownFlush(r)
    \/ \E r \in StopReqIds : TimerFire(r)
    \/ TeardownExit

SpecStop == Init /\ [][NextStop]_vars

----------------------------------------------------------------------------
(* The Agent Bridge: main and handleRequest of crux-mcp *)

BridgeMethods == {"initialize", "notifications/initialized", "tools/list",
                  "tools/call", "notifications/cancelled"}
ToolNames     == {"crux_status", "crux_send", "crux_logs", "crux_focus",
                  "crux_restart"}
TabTools      == {"crux_send", "crux_logs", "crux_focus"}

\* What wezterm cli list may answer, and the tab references of the calls.
Listings   == {<<>>, <<[title |-> "backend", id |-> 1]>>}
BridgeRefs == {"1", "db"}

\* A line of stdin. A JSON message carries an id (the number of its line;
\* 0 = no id, a notification), a method, and for tools/call its params:
\* whether they unmarshal, and the tool they name.
Line(kind, id, method, paramsOk, tool) ==
    [kind |-> kind, id |-> id, method |-> method, paramsOk |-> paramsOk,
     tool |-> tool]

\* The id of the next line, if it carries one.
NextIds == {0, Len(inbox) + 1}

\* sendResult / sendError: one line on stdout, with the id given.
Reply(id, kind) == [id |-> id, kind |-> kind]

\* scanner.Scan() returns a line.
Scanned == Len(inbox) < MaxLines

\* One iteration of the loop of main: the line is read and handled whole
\* before the next one is read.
ReadLine(line, replies, acc) ==
    /\ inbox' = Append(inbox, line)
    /\ outbox' = outbox \o replies
    /\ lastCall' = acc
    /\ UNCHANGED offBridge

\* Lines 111-113: an empty line is skipped.
SkipEmpty ==
    /\ Scanned
    /\ ReadLine(Line("empty", 0, "", TRUE, ""), <<>>, NoCall)

\* Lines 115-119: a line that is not JSON is answered with a parse error
\* that carries no id.
ParseError ==
    /\ Scanned
    /\ ReadLine(Line("garbage", 0, "", TRUE, ""), <<Reply(0, "parse_error")>>, NoCall)

\* Lines 127-139: initialize.
HandleInitialize(id) ==
    /\ Scanned
    /\ ReadLine(Line("json", id, "initialize", TRUE, ""), <<Reply(id, "result")>>, NoCall)

\* Lines 141-142: notifications/initialized: nothing is written.
HandleInitialized(id) ==
    /\ Scanned
    /\ ReadLine(Line("json", id, "notifications/initialized", TRUE, ""), <<>>, NoCall)

\* Lines 144-204: tools/list.
HandleToolsList(id) ==
    /\ Scanned
    /\ ReadLine(Line("json", id, "tools/list", TRUE, ""), <<Reply(id, "result")>>, NoCall)

\* Lines 208-211: tools/call whose params do not unmarshal.
HandleBadParams(id) ==
    /\ Scanned
    /\ ReadLine(Line("json", id, "tools/call", FALSE, ""),
                <<Reply(id, "invalid_params")>>, Accesses("", 0, 0, 1))

\* Lines 214-216: any other method.
HandleDefault(id, method) ==
    /\ Scanned
    /\ method \notin {"initialize", "notifications/initialized", "tools/list",
                      "tools/call"}
    /\ ReadLine(Line("json", id, method, TRUE, ""),
                <<Reply(id, "method_not_found")>>, NoCall)

\* getStatus (336-367): one wezterm cli list, whatever it answers.
StatusCommands == 1

\* sendToTab / getTabLogs / focusTab (369-435): findTab runs wezterm cli
\* list; if a pane is found one more wezterm command acts on it; focusTab
\* then also runs osascript when the activation succeeded.
TabCommands(tool, listOk, found, actOk) ==
    IF ~listOk \/ ~found THEN 1
    ELSE IF tool = "crux_focus" /\ actOk THEN 3
    ELSE 2

\* handleToolCall (219-250): the tool runs, then one result is written.
HandleToolCall(id, tool, tabRef, listOk, listing, actOk) ==
    LET cli == IF tool = "crux_status" THEN StatusCommands
               ELSE IF tool \in TabTools
                 THEN TabCommands(tool, listOk,
                                  findTab(tabRef, listing).target # 0, actOk)
               ELSE 0
    IN  /\ Scanned
        /\ ReadLine(Line("json", id, "tools/call", TRUE, tool),
                    <<Reply(id, "tool_result")>>, Accesses(tool, 0, cli, 1))

NextBridge ==
    \/ SkipEmpty
    \/ ParseError
    \/ \E id \in NextIds : HandleInitialize(id)
    \/ \E id \in NextIds : HandleInitialized(id)
    \/ \E id \in NextIds : HandleToolsList(id)
    \/ \E id \in NextIds : HandleBadParams(id)
    \/ \E id \in NextIds, m \in BridgeMethods : HandleDefault(id, m)
    \/ \E id \in NextIds, tool \in ToolNames, tabRef \in BridgeRefs,
          listOk \in BOOLEAN, listing \in Listings, actOk \in BOOLEAN :
            HandleToolCall(id, tool, tabRef, listOk, listing, actOk)

SpecBridge == Init /\ [][NextBridge]_vars

----------------------------------------------------------------------------
(* The output buffer: ManagedProcess.captureOutput and GetOutput *)

\* Lines 398-400: what is left of the buffer once over capacity.
EvictNewest(q) == IF Len(q) > maxLines THEN SubSeq(q, 1, Len(q) - 1) ELSE q
Evict(q) == IF Len(q) > maxLines THEN Tail(q) ELSE q

\* Lines 395-403: scanner.Scan() returned a line; the reader takes p.mu and
\* appends it.
CaptureAppend(r) ==
    /\ capPc[r] = "scan"
    /\ total < MaxTotal
    /\ bufMu = "free"
    /\ bufMu' = r
    /\ total' = total + 1
    /\ outputLines' = Append(outputLines, total + 1)
    /\ capPc' = [capPc EXCEPT ![r] = "appended"]
    /\ UNCHANGED <<observed, offOut>>

\* Lines 404-407: still holding p.mu, the reader cuts the buffer back to
\* capacity and unlocks.
CaptureTrim(r) ==
    /\ capPc[r] = "appended"
    /\ outputLines' = Evict(outputLines)
    /\ bufMu' = "free"
    /\ capPc' = [capPc EXCEPT ![r] = "print"]
    /\ UNCHANGED <<total, observed, offOut>>

\* Line 411: fmt.Println, then back to scanner.Scan().
CapturePrint(r) ==
    /\ capPc[r] = "print"
    /\ capPc' = [capPc EXCEPT ![r] = "scan"]
    /\ UNCHANGED <<outputLines, total, bufMu, observed, offOut>>

\* GetOutput (383-390): a copy of the buffer, taken under the read lock.
GetOutput ==
    /\ bufMu = "free"
    /\ observed' = [lines |-> outputLines, total |-> total]
    /\ UNCHANGED <<outputLines, total, capPc, bufMu, offOut>>

NextOut ==
    \/ \E r \in Sources : CaptureAppend(r)
    \/ \E r \in Sources : CaptureTrim(r)
    \/ \E r \in Sources : CapturePrint(r)
    \/ GetOutput

SpecOut == Init /\ [][NextOut]_vars

----------------------------------------------------------------------------
(* Orchestrator runs: runWithWezterm, StartWithTabs, KillPrevious,         *)
(* SavePanes and Cleanup                                                   *)

\* The k-th pane spawned by run r.
Pane(r, k) == [run |-> r, k |-> k]

\* The panes the launcher tracks.
Tracked == {paneIDs[j] : j \in 1..Len(paneIDs)}

\* The process of the run is gone, the way given.
RunEnds(how) ==
    /\ rpc' = "idle"
    /\ lastEnd' = how

\* crux is run: NewWeztermLauncher (runWithWezterm 262).
RunBegin ==
    /\ rpc = "idle"
    /\ runNo < MaxRuns
    /\ runNo' = runNo + 1
    /\ rpc' = "kill_prev"
    /\ paneIDs' = <<>>
    /\ startOnes' = 0
    /\ failedSvc' = 0
    /\ UNCHANGED <<alive, roster, lastEnd, offRun>>

\* KillPrevious (part_010:39-58): every pane of the roster file is killed
\* and the file removed; without a file nothing is done.
KillPrevious ==
    /\ rpc = "kill_prev"
    /\ alive' = alive \ roster
    /\ roster' = {}
    /\ rpc' = "spawn"
    /\ UNCHANGED <<runNo, paneIDs, startOnes, failedSvc, lastEnd, offRun>>

\* StartWithTabs 463-477 (OpenWindow for the first service, SpawnTab for
\* the others): the pane of the next service is spawned and tracked.
SpawnOk ==
    /\ rpc = "spawn"
    /\ LET k == Len(paneIDs) + 1 IN
       /\ alive' = alive \cup {Pane(runNo, k)}
       /\ paneIDs' = Append(paneIDs, Pane(runNo, k))
       /\ rpc' = IF k = NumServices THEN "save" ELSE "spawn"
    /\ UNCHANGED <<runNo, roster, startOnes, failedSvc, lastEnd, offRun>>

\* The spawn of the next service fails after its retries: StartWithTabs
\* returns the error at once and runWithWezterm prints it and exits with
\* status 1, before SavePanes and without Cleanup.
SpawnFail ==
    /\ rpc = "spawn"
    /\ failedSvc' = Len(paneIDs) + 1
    /\ RunEnds("failed_batch")
    /\ UNCHANGED <<runNo, paneIDs, alive, roster, startOnes, offRun>>

\* SavePanes (part_010:61-68), called once after the batch (part_001:292).
SavePanes ==
    /\ rpc = "save"
    /\ roster' = IF Len(paneIDs) = 0 THEN roster ELSE Tracked
    /\ rpc' = "serving"
    /\ UNCHANGED <<runNo, paneIDs, alive, startOnes, failedSvc, lastEnd, offRun>>

\* The start-one handler of the API (part_001:298-322): tc.SpawnTab spawns
\* and tracks a pane; the roster file is not written again.
StartOneApi ==
    /\ rpc = "serving"
    /\ startOnes < MaxStartOne
    /\ startOnes' = startOnes + 1
    /\ LET k == Len(paneIDs) + 1 IN
       /\ alive' = alive \cup {Pane(runNo, k)}
       /\ paneIDs' = Append(paneIDs, Pane(runNo, k))
    /\ UNCHANGED <<runNo, rpc, roster, failedSvc, lastEnd, offRun>>

\* Cleanup (part_010:71-76): the tracked panes are killed, the roster file
\* is removed.  It is run on SIGINT / SIGTERM (part_001:350-357) and by the
\* shutdown callback of the API (323-326), when the run is serving.
Shutdown(how) ==
    /\ rpc = "serving"
    /\ alive' = alive \ Tracked
    /\ roster' = {}
    /\ RunEnds(how)
    /\ UNCHANGED <<runNo, paneIDs, startOnes, failedSvc, offRun>>

\* The process is killed, or its terminal closed: nothing is cleaned up.
Terminated ==
    /\ rpc # "idle"
    /\ RunEnds("terminated")
    /\ UNCHANGED <<runNo, paneIDs, alive, roster, startOnes, failedSvc, offRun>>

NextRuns ==
    \/ RunBegin
    \/ KillPrevious
    \/ SpawnOk
    \/ SpawnFail
    \/ SavePanes
    \/ StartOneApi
    \/ \E how \in {"signal", "api"} : Shutdown(how)
    \/ Terminated

SpecRuns == Init /\ [][NextRuns]_vars

----------------------------------------------------------------------------
(* The lock of the API server: s.mu (sync.RWMutex) in the handlers         *)

\* The handlers that take s.mu: tab mode (handleSend, handleLogs,
\* handleFocus), worker mode (handleReload) and handleStatus.
HandlerKinds == {"send", "logs", "focus", "reload", "status"}

\* The request holds s.mu for reading.
Holders == {r \in 1..MaxReqs : hreq[r].holds}

HandlerStep(r, pc, holds) ==
    hreq' = [hreq EXCEPT ![r] = [kind |-> @.kind, pc |-> pc, holds |-> holds]]

\* A request arrives and its handler runs up to s.mu.RLock().
HandlerArrive(r, kind) ==
    /\ hreq[r].pc = "none"
    /\ hreq' = [hreq EXCEPT ![r] = [kind |-> kind, pc |-> "rlock", holds |-> FALSE]]
    /\ UNCHANGED <<setter, offLock>>

\* s.mu.RLock(): sync.RWMutex admits no new reader while a writer holds the
\* lock or waits for it.
HandlerRLock(r) ==
    /\ hreq[r].pc = "rlock"
    /\ setter = "idle"
    /\ HandlerStep(r, "locked", TRUE)
    /\ UNCHANGED <<setter, offLock>>

\* Under the read lock.  handleSend / handleLogs / handleFocus copy
\* s.tabCtrl and RUnlock before the call on the tab controller;
\* handleReload has "defer s.mu.RUnlock()" and calls worker.SendCommand
\* with the lock held; handleStatus builds its response and returns.
HandlerProceed(r) ==
    /\ hreq[r].pc = "locked"
    /\ CASE hreq[r].kind = "status" -> HandlerStep(r, "done", FALSE)
         [] hreq[r].kind = "reload" -> HandlerStep(r, "calling", TRUE)
         [] OTHER                   -> HandlerStep(r, "calling", FALSE)
    /\ UNCHANGED <<setter, offLock>>

\* The backend call returns, the handler writes its response and returns
\* (the deferred RUnlock runs).
BackendReturns(r) ==
    /\ hreq[r].pc = "calling"
    /\ HandlerStep(r, "done", FALSE)
    /\ UNCHANGED <<setter, offLock>>

\* SetWorkers / SetTabController: s.mu.Lock() is called ...
SetterLock ==
    /\ setter = "idle"
    /\ setter' = "waiting"
    /\ UNCHANGED <<hreq, offLock>>

\* ... and returns when no reader holds the lock.
SetterAcquire ==
    /\ setter = "waiting"
    /\ Holders = {}
    /\ setter' = "holding"
    /\ UNCHANGED <<hreq, offLock>>

\* The field is assigned and the deferred Unlock runs.
SetterUnlock ==
    /\ setter = "holding"
    /\ setter' = "idle"
    /\ UNCHANGED <<hreq, offLock>>

NextLock ==
    \/ \E r \in 1..MaxReqs, kind \in HandlerKinds : HandlerArrive(r, kind)
    \/ \E r \in 1..MaxReqs : HandlerRLock(r)
    \/ \E r \in 1..MaxReqs : HandlerProceed(r)
    \/ \E r \in 1..MaxReqs : BackendReturns(r)
    \/ SetterLock
    \/ SetterAcquire
    \/ SetterUnlock

SpecLock == Init /\ [][NextLock]_vars

----------------------------------------------------------------------------
(* The registry of the launcher: w.servicePanes and w.paneIDs, reached     *)
(* from the goroutines of the HTTP handlers                                *)

\* resolvePane reads w.servicePanes (GetServicePane), SpawnTab appends to
\* w.paneIDs and assigns w.servicePanes[title], Cleanup reads w.paneIDs.
RegOps == {"resolve", "spawn", "cleanup"}
RegWrites(op) == op = "spawn"

\* The requests that are reading or writing the registry right now.
InRegistry == {r \in 1..MaxReqs : racc[r].pc = "access"}

\* The accesses that conflict with an access of kind op: WeztermLauncher
\* has no mutex, so nothing keeps them apart.
Conflicting(r, op) ==
    {q \in InRegistry \ {r} : RegWrites(op) \/ RegWrites(racc[q].op)}

\* A handler starts: for a spawn this is the wezterm cli call up to the
\* return of the new pane id.
RegArrive(r, op) ==
    /\ ~regFault
    /\ racc[r].pc = "none"
    /\ racc' = [racc EXCEPT ![r] = [op |-> op, pc |-> "before", raced |-> FALSE]]
    /\ UNCHANGED <<regFault, offReg>>

\* The goroutine begins its read or write of the registry.
RegBegin(r) ==
    /\ ~regFault
    /\ racc[r].pc = "before"
    /\ LET cs == Conflicting(r, racc[r].op) IN
       racc' = [q \in 1..MaxReqs |->
                  IF q = r THEN [racc[q] EXCEPT !.pc = "access", !.raced = cs # {}]
                  ELSE IF q \in cs THEN [racc[q] EXCEPT !.raced = TRUE]
                  ELSE racc[q]]
    /\ UNCHANGED <<regFault, offReg>>

\* The read or write is over.  After a data race the Go runtime may have
\* ended the process ("fatal error: concurrent map read and map write"),
\* or the access went through.
RegEnd(r) ==
    /\ ~regFault
    /\ racc[r].pc = "access"
    /\ racc' = [racc EXCEPT ![r].pc = "done"]
    /\ regFault' \in (IF racc[r].raced THEN {FALSE, TRUE} ELSE {FALSE})
    /\ UNCHANGED offReg

NextReg ==
    \/ \E r \in 1..MaxReqs, op \in RegOps : RegArrive(r, op)
    \/ \E r \in 1..MaxReqs : RegBegin(r)
    \/ \E r \in 1..MaxReqs : RegEnd(r)

SpecReg == Init /\ [][NextReg]_vars

----------------------------------------------------------------------------
(* Spawning a tab: SpawnTab, SpawnTabInWindow, SpawnTabInPane              *)

MaxAttempts == 5     \* part_010:295, 322: attempt < 5
SpawnPause  == 500   \* part_010:304, 331: time.Sleep(500 * time.Millisecond)

\* w.firstWindowID and w.firstPaneID as OpenWindow can have left them.
WindowIds == {"", "0", "7"}
AnchorIds == {"", "4"}

\* The condition of "for attempt := 0; attempt < 5; attempt++".
LoopGoesOnSix(n) == n <= MaxAttempts
LoopGoesOn(n) == n < MaxAttempts

\* SpawnTab 338-347: without an anchor an error at once; with a window id
\* other than "0" SpawnTabInWindow, else SpawnTabInPane.
SpawnTabCall(t, win, pane) ==
    /\ sp.pc = "idle"
    /\ sp' = IF win = "" /\ pane = ""
               THEN [NoSpawn EXCEPT !.pc = "returned", !.title = t,
                                    !.result = "no_anchor"]
               ELSE [NoSpawn EXCEPT !.pc = "try", !.title = t, !.win = win,
                                    !.pane = pane,
                                    !.via = IF win # "" /\ win # "0"
                                            THEN "window" ELSE "pane"]
    /\ UNCHANGED offSpawn

\* "wezterm cli spawn" succeeds: the title is set and the pane id returned.
AttemptOk ==
    /\ sp.pc = "try"
    /\ sp' = [sp EXCEPT !.attempts = @ + 1, !.result = "pane_id",
                         !.pc = "returned"]
    /\ UNCHANGED offSpawn

\* "wezterm cli spawn" fails: lastErr is kept and the pause begins.
AttemptFail ==
    /\ sp.pc = "try"
    /\ sp' = [sp EXCEPT !.attempts = @ + 1, !.fails = @ + 1, !.pc = "sleep"]
    /\ UNCHANGED offSpawn

\* time.Sleep(500ms) is over; attempt++ and the loop condition: another
\* attempt, or "failed to spawn wezterm tab".
PauseOver ==
    /\ sp.pc = "sleep"
    /\ sp' = IF LoopGoesOn(sp.attempts)
               THEN [sp EXCEPT !.slept = @ + SpawnPause, !.pc = "try"]
               ELSE [sp EXCEPT !.slept = @ + SpawnPause, !.pc = "returned",
                               !.result = "error"]
    /\ UNCHANGED offSpawn

\* The caller has the result; the next call can begin.
SpawnTabDone ==
    /\ sp.pc = "returned"
    /\ sp' = NoSpawn
    /\ UNCHANGED offSpawn

NextSpawn ==
    \/ \E t \in Titles, win \in WindowIds, pane \in AnchorIds :
          SpawnTabCall(t, win, pane)
    \/ AttemptOk
    \/ AttemptFail
    \/ PauseOver
    \/ SpawnTabDone

SpecSpawn == Init /\ [][NextSpawn]_vars

----------------------------------------------------------------------------
(* Stale-session cleanup: KillPrevious over the lines of the roster file   *)

\* Lines a roster file can hold, and strings.TrimSpace of each.
RosterLines == {"", " ", "3", "9 "}
TrimSpace == [l \in RosterLines |->
                CASE l = " " -> "" [] l = "9 " -> "9" [] OTHER -> l]

\* strings.Split(strings.TrimSpace(data), "\n"): the data is trimmed as a
\* whole before it is split, so the first line does not begin and the last
\* line does not end with white space; empty data gives one empty line.
SplitData ==
    {<<l>> : l \in {"", "3"}} \cup
    UNION {{ls \in [1..n -> RosterLines] :
              ls[1] \in {"3", "9 "} /\ ls[n] = "3"} : n \in 2..MaxRoster}

\* The loop goes to the next line whatever the kill returned: the error of
\* Run() is dropped.
NextEntryAbort(i, ok, n) == IF ok THEN i + 1 ELSE n + 1
NextEntry(i, ok, n) == i + 1

\* Lines 41-44: there is no roster file, KillPrevious returns.
KillNoFile ==
    /\ kp.pc = "idle"
    /\ kp' = [NoKill EXCEPT !.pc = "done"]
    /\ UNCHANGED offKill

\* Lines 41-46: the file is read and split.
KillRead(ls) ==
    /\ kp.pc = "idle"
    /\ kp' = [NoKill EXCEPT !.pc = "loop", !.lines = ls, !.idx = 1,
                             !.file = TRUE]
    /\ UNCHANGED offKill

\* Lines 47-54, one iteration: an empty line is skipped, for any other
\* "wezterm cli kill-pane" is run; ok tells whether it succeeded.
KillEntry(ok) ==
    /\ kp.pc = "loop"
    /\ kp.idx <= Len(kp.lines)
    /\ LET id == TrimSpace[kp.lines[kp.idx]] IN
       IF id = ""
         THEN /\ ok
              /\ kp' = [kp EXCEPT !.idx = @ + 1]
         ELSE kp' = [kp EXCEPT !.idx = NextEntry(kp.idx, ok, Len(kp.lines)),
                               !.issued = Append(@, id),
                               !.results = Append(@, ok)]
    /\ UNCHANGED offKill

\* Line 56: os.Remove(cruxPanesFile).
KillRemoveFile ==
    /\ kp.pc = "loop"
    /\ kp.idx > Len(kp.lines)
    /\ kp' = [kp EXCEPT !.pc = "done", !.file = FALSE]
    /\ UNCHANGED offKill

\* KillPrevious has returned.
KillReturn ==
    /\ kp.pc = "done"
    /\ kp' = NoKill
    /\ UNCHANGED offKill

NextKill ==
    \/ KillNoFile
    \/ \E ls \in SplitData : KillRead(ls)
    \/ \E ok \in BOOLEAN : KillEntry(ok)
    \/ KillRemoveFile
    \/ KillReturn

SpecKill == Init /\ [][NextKill]_vars

----------------------------------------------------------------------------
(* Commands to a worker: SendCommandToPipe (server.go) and sendCommand     *)
(* (part_001), which have the same body                                    *)

PipeTimeout == 2     \* server.go 636: time.After(2 * time.Second)

\* The case "<-time.After(2 * time.Second)" of the select is ready.
TimerNever(e) == FALSE
TimerFired(e) == e >= PipeTimeout

\* A case of the select of send i is ready.
SelectReady(i) ==
    sends[i].pc = "waiting" /\ (sends[i].done # "" \/ TimerFired(sends[i].elapsed))

\* Lines 620-631, 634: the channel is made, the writer goroutine started,
\* the caller is at the select.
PipeSend(i) ==
    /\ sends[i].pc = "none"
    /\ sends' = [sends EXCEPT ![i] = [NoSend EXCEPT !.pc = "waiting",
                                                    !.wr = "opening"]]
    /\ UNCHANGED <<reader, offPipe>>

\* Lines 622-626: os.OpenFile fails (the pipe is gone): the error goes
\* into the channel, which has room for it.
WriterOpenFails(i) ==
    /\ sends[i].wr = "opening"
    /\ sends' = [sends EXCEPT ![i].wr = "done", ![i].done = "open_error"]
    /\ UNCHANGED <<reader, offPipe>>

\* Lines 622, 629-630: opening a pipe for writing returns once a reader has
\* it open; then the line is written (ok), or the reader is gone again and
\* the write fails; the result goes into the channel.  Nothing ends the
\* goroutine before this, whatever the caller did meanwhile.
WriterWrites(i, ok) ==
    /\ sends[i].wr = "opening"
    /\ reader
    /\ sends' = [sends EXCEPT ![i].wr = "done",
                               ![i].done = IF ok THEN "ok" ELSE "write_error",
                               ![i].delivered = ok]
    /\ UNCHANGED <<reader, offPipe>>

\* Lines 634-635: the select takes the value of the channel.
SelectDone(i) ==
    /\ sends[i].pc = "waiting"
    /\ sends[i].done # ""
    /\ sends' = [sends EXCEPT ![i].pc = "returned", ![i].result = sends[i].done]
    /\ UNCHANGED <<reader, offPipe>>

\* Lines 636-637: the select takes the timer: "timeout writing to pipe".
SelectTimeout(i) ==
    /\ sends[i].pc = "waiting"
    /\ TimerFired(sends[i].elapsed)
    /\ sends' = [sends EXCEPT ![i].pc = "returned", ![i].result = "timeout"]
    /\ UNCHANGED <<reader, offPipe>>

\* A second passes for the callers that wait; a select with a ready case
\* returns before that.
PipeTick ==
    /\ \E i \in 1..MaxSends : sends[i].pc = "waiting"
    /\ \A i \in 1..MaxSends : ~SelectReady(i)
    /\ \A i \in 1..MaxSends : sends[i].pc = "waiting" => sends[i].elapsed < MaxElapsed
    /\ sends' = [i \in 1..MaxSends |->
                   IF sends[i].pc = "waiting"
                     THEN [sends[i] EXCEPT !.elapsed = @ + 1] ELSE sends[i]]
    /\ UNCHANGED <<reader, offPipe>>

\* The worker opens its pipe for reading, or closes it.
ReaderOpens ==
    /\ ~reader
    /\ reader' = TRUE
    /\ UNCHANGED <<sends, offPipe>>

ReaderCloses ==
    /\ reader
    /\ reader' = FALSE
    /\ UNCHANGED <<sends, offPipe>>

NextPipe ==
    \/ \E i \in 1..MaxSends : PipeSend(i)
    \/ \E i \in 1..MaxSends : WriterOpenFails(i)
    \/ \E i \in 1..MaxSends, ok \in BOOLEAN : WriterWrites(i, ok)
    \/ \E i \in 1..MaxSends : SelectDone(i)
    \/ \E i \in 1..MaxSends : SelectTimeout(i)
    \/ PipeTick
    \/ ReaderOpens
    \/ ReaderCloses

SpecPipe == Init /\ [][NextPipe]_vars

----------------------------------------------------------------------------
(* The pane id OpenWindow records, and what Cleanup and KillPrevious kill  *)

\* The ids of some panes.
WIds(ps) == {p.id : p \in ps}

\* "wezterm cli kill-pane --pane-id id" for each id: the panes that go.
KilledBy(ids) == {p \in wpanes : p.id \in ids}

\* The user opens a pane of their own (the terminal crux is run from).
UserPane ==
    /\ wnext < MaxWezPanes
    /\ wpanes' = wpanes \cup {[id |-> wnext, by |-> "user"]}
    /\ wnext' = wnext + 1
    /\ UNCHANGED <<wtracked, wroster, wopened, wkilled, offWin>>

\* OpenWindow 159-204.  "wezterm start" is started and 1.5 s later the
\* panes are listed: the new pane is in the listing or not yet (appeared);
\* the listing fails or is empty and the id stays "0", or the id of the
\* LAST entry is taken, and the order of the listing is undefined.
OpenWindow(appeared, listOk, pick) ==
    /\ ~wopened
    /\ wnext < MaxWezPanes
    /\ LET new    == [id |-> wnext, by |-> "crux"]
           listed == IF appeared THEN wpanes \cup {new} ELSE wpanes
           paneID == IF listOk /\ listed # {} THEN pick ELSE 0
       IN /\ listOk /\ listed # {} => pick \in WIds(listed)
          /\ ~(listOk /\ listed # {}) => pick = 0
          /\ wpanes' = wpanes \cup {new}
          /\ wtracked' = wtracked \cup {paneID}
    /\ wnext' = wnext + 1
    /\ wopened' = TRUE
    /\ UNCHANGED <<wroster, wkilled, offWin>>

\* SavePanes 60-67.
WinSavePanes ==
    /\ wopened
    /\ wtracked # {}
    /\ wroster # wtracked
    /\ wroster' = wtracked
    /\ UNCHANGED <<wpanes, wnext, wtracked, wopened, wkilled, offWin>>

\* Cleanup 70-75 at shutdown: every id of w.paneIDs is killed, the roster
\* removed; the run is over.
WinCleanup ==
    /\ wopened
    /\ wpanes' = wpanes \ KilledBy(wtracked)
    /\ wkilled' = wkilled \cup {p \in KilledBy(wtracked) : p.by = "user"}
    /\ wroster' = {}
    /\ wtracked' = {}
    /\ wopened' = FALSE
    /\ UNCHANGED <<wnext, offWin>>

\* The run is terminated without cleanup; the next run begins with
\* KillPrevious 39-57: every id of the roster is killed, the roster removed.
WinKillPrevious ==
    /\ wopened
    /\ wroster # {}
    /\ wpanes' = wpanes \ KilledBy(wroster)
    /\ wkilled' = wkilled \cup {p \in KilledBy(wroster) : p.by = "user"}
    /\ wroster' = {}
    /\ wtracked' = {}
    /\ wopened' = FALSE
    /\ UNCHANGED <<wnext, offWin>>

NextWin ==
    \/ UserPane
    \/ \E appeared \in BOOLEAN, listOk \in BOOLEAN, pick \in 0..MaxWezPanes :
          OpenWindow(appeared, listOk, pick)
    \/ WinSavePanes
    \/ WinCleanup
    \/ WinKillPrevious

SpecWin == Init /\ [][NextWin]_vars

----------------------------------------------------------------------------
(* Who runs wez.Cleanup(): the goroutines launched by handleStopAll and    *)
(* the main goroutine after a signal                                       *)

\* server.go 557-563: a POST to /stop is handled, its goroutine is launched
\* and sleeps 100 ms; nothing records that a shutdown is under way.
StopRequested(r) ==
    /\ ~downExit
    /\ cleaners[r].pc = "no"
    /\ cleaners' = [cleaners EXCEPT ![r].pc = "sleeping"]
    /\ UNCHANGED <<downExit, offDown>>

\* server.go 560-562, part_001:323-324: the sleep is over, s.onShutdown()
\* is called and enters wez.Cleanup().
CallbackStarts(r) ==
    /\ ~downExit
    /\ cleaners[r].pc = "sleeping"
    /\ cleaners' = [cleaners EXCEPT ![r].pc = "cleanup"]
    /\ UNCHANGED <<downExit, offDown>>

\* part_001:351-357: SIGINT or SIGTERM is delivered to sigChan; the main
\* goroutine enters wez.Cleanup().
SignalArrives ==
    /\ ~downExit
    /\ cleaners[0].pc = "no"
    /\ cleaners' = [cleaners EXCEPT ![0].pc = "cleanup"]
    /\ UNCHANGED <<downExit, offDown>>

\* Cleanup 71-73: kill-pane is run for the next pane of w.paneIDs.
CleanupKill(k) ==
    /\ ~downExit
    /\ cleaners[k].pc = "cleanup"
    /\ cleaners[k].killed < NumServices
    /\ cleaners' = [cleaners EXCEPT ![k].killed = @ + 1]
    /\ UNCHANGED <<downExit, offDown>>

\* Cleanup has returned: os.Exit(0) in the callback (part_001:325), the
\* return of runWithWezterm in the main goroutine (358).
CleanupExit(k) ==
    /\ ~downExit
    /\ cleaners[k].pc = "cleanup"
    /\ cleaners[k].killed = NumServices
    /\ cleaners' = [cleaners EXCEPT ![k].pc = "done"]
    /\ downExit' = TRUE
    /\ UNCHANGED offDown

NextDown ==
    \/ \E r \in 1..MaxStopReqs : StopRequested(r)
    \/ \E r \in 1..MaxStopReqs : CallbackStarts(r)
    \/ SignalArrives
    \/ \E k \in 0..MaxStopReqs : CleanupKill(k)
    \/ \E k \in 0..MaxStopReqs : CleanupExit(k)

SpecDown == Init /\ [][NextDown]_vars

----------------------------------------------------------------------------
(* Properties of the process manager *)

Live == 1..nInst

\* C1: StartProcess on an id that is in the registry returns the "already
\* exists" error and changes nothing of the manager (no entry, no object, no
\* OS process, no state or stream of the existing entry); an object is only
\* ever created for an id that has no entry, so the live objects carry
\* pairwise different ids, each registered under its own id.
C1_StartExisting ==
    /\ [](\A i \in Live : processes[pID[i]] = i)
    /\ [][ /\ nInst' = nInst + 1 => processes[pID'[nInst']] = 0
           /\ (ev'.op = "StartProcess" /\ ev'.res \in {"exists", "pipe_failed"}) =>
                /\ (ev'.res = "exists") = (processes[ev'.id] # 0)
                /\ UNCHANGED pmVars
         ]_vars

\* A second StartProcess for the id of a Running process was refused.
C1_Witness ==
    /\ ev.op = "StartProcess"
    /\ ev.res = "exists"
    /\ State[processes[ev.id]] = StateRunning

Rank(st) ==
    CASE st = StateStarting -> 0
      [] st = StateRunning  -> 1
      [] st = StateStopping -> 2
      [] st = StateStopped  -> 3
      [] OTHER              -> 4

\* C2: the state of a live object only moves forward in the order Starting,
\* Running, Stopping, Stopped, and nothing leaves Error: no step of Stop, of
\* the exit monitor or of anything else moves it back.
C2_Monotonic ==
    [][\A i \in Live :
         \/ State'[i] = State[i]
         \/ State[i] # StateError /\ State'[i] = StateError
         \/ State[i] # StateError /\ Rank(State[i]) < Rank(State'[i])
      ]_vars

\* Stop and the exit monitor have both run on the same instance.
C2_Witness ==
    \E i \in Live : State[i] = StateStopped /\ stopCloses[i] = 1 /\ monPc[i] = "done"

\* C3: every Stop returns nil with the instance Stopped, and over all the
\* Stop calls made on an instance the cancel, the forced kill and the closing
\* of the streams each happen at most once.
C3_StopIdempotent ==
    /\ \A i \in Insts : stopCancels[i] <= 1 /\ stopKills[i] <= 1 /\ stopCloses[i] <= 1
    /\ ev.op = "Stop" => ev.res = "nil" /\ State[ev.inst] = StateStopped

\* A Stop called on an instance another Stop was tearing down (or had torn
\* down) has returned.
C3_Witness ==
    /\ ev.op = "Stop"
    /\ ~ev.was
    /\ stopCancels[ev.inst] = 1
    /\ stopCloses[ev.inst] = 1

\* C4: when Stop returns for an instance that was Running when Stop was
\* called, the instance is Stopped and its three streams are closed.
C4_StopLeavesStopped ==
    (ev.op = "Stop" /\ ev.was) =>
        /\ State[ev.inst] = StateStopped
        /\ streams[ev.inst] = AllClosed

\* Stop returned after it had to force-kill a Running instance.
C4_Witness ==
    /\ ev.op = "Stop"
    /\ ev.was
    /\ stopKills[ev.inst] = 1

\* C5: StartProcess is never refused as "already exists" for an id whose
\* process has been stopped, and a Restart made on a Running backend whose
\* build and launch went through returns without error with the backend
\* Running.
C5_RestartSucceeds ==
    /\ (ev.op = "StartProcess" /\ ev.res = "exists") =>
          State[processes[ev.id]] # StateStopped
    /\ (ev.op = "Restart" /\ ev.was /\
        ev.res \notin {"build_failed", "pipe_failed", "launch_failed"}) =>
          /\ ev.res = "ok"
          /\ State[processes[procID]] = StateRunning

\* A step of the Stop that call c is making.
StopStep(c) ==
    /\ c.pc \in {"stop_enter", "stop_wait"}
    /\ CopiesIn(c, calls') < CopiesIn(c, calls)

\* C6: no step of a Stop changes anything of another instance: its state,
\* its OS process, its context, its streams.
C6_StopFrame ==
    [][\A c \in InFlight : StopStep(c) =>
         \A j \in Insts \ {c.cur} :
            /\ State'[j] = State[j]
            /\ osProc'[j] = osProc[j]
            /\ ctxDone'[j] = ctxDone[j]
            /\ streams'[j] = streams[j]
      ]_vars

\* Stop has returned for a Running instance while another one is Running.
C6_Witness ==
    /\ ev.op = "Stop"
    /\ ev.was
    /\ State[ev.inst] = StateStopped
    /\ \E j \in Live \ {ev.inst} : State[j] = StateRunning /\ osProc[j] = "alive"

\* C7: when StopAll is at its return, every process of its snapshot is
\* Stopped.
C7_StopAllStopsAll ==
    \A c \in InFlight :
        (c.pc = "all_loop" /\ c.todo = {}) =>
            \A i \in c.snap : State[i] = StateStopped

\* StopAll is at its return after visiting two processes, one that had
\* exited by itself and one it had to tear down.
C7_Witness ==
    \E c \in InFlight :
        /\ c.pc = "all_loop"
        /\ c.todo = {}
        /\ \E i, j \in c.snap : stopCloses[i] = 0 /\ stopCloses[j] = 1

\* C8 as stated: SendInput on an instance that is not Running returns an
\* error and writes nothing; on a Running instance it writes the text and
\* one newline.
C8_SendInputAsStated ==
    ev.op = "SendInput" =>
        IF State[ev.inst] # StateRunning
          THEN ev.res # "nil" /\ ev.data = ""
          ELSE ev.data = ev.id \o "\n"

\* C8: SendInput on an instance that is not Running returns the "not
\* running" error and writes nothing.  On a Running instance it makes one
\* write of the text and one newline and returns what the write returned:
\* the bytes reach stdin when the process is alive with stdin open, and
\* otherwise (the process has exited and the monitor has not yet updated the
\* state) the write fails, the error is returned and nothing is written.
C8_SendInput ==
    ev.op = "SendInput" =>
        LET i == ev.inst IN
        IF State[i] # StateRunning
          THEN ev.res = "not_running" /\ ev.data = ""
          ELSE IF streams[i].Stdin /\ osProc[i] = "alive"
            THEN ev.res = "nil" /\ ev.data = ev.id \o "\n"
            ELSE ev.res = "write_error" /\ ev.data = ""

\* An input was written to a Running process.
C8_Witness ==
    /\ ev.op = "SendInput"
    /\ ev.res = "nil"
    /\ ev.data = "R\n"

----------------------------------------------------------------------------
(* Properties of the log directory *)

\* C9: once a run has created its run file, the directory holds at most
\* KeepRuns run files.
C9_AtMostKeepRuns ==
    wpc \in {"running", "idle"} => Len(runFiles) <= KeepRuns

Max(S) == CHOOSE x \in S : \A y \in S : y <= x

\* C10: once a run file exists, latest.log exists and points to an existing
\* run file, the one of the most recently started run.
C10_LatestResolves ==
    runFiles # <<>> =>
        /\ latest # 0
        /\ latest \in Names(runFiles)
        /\ latest = Max(Names(runFiles))

----------------------------------------------------------------------------
(* Properties of the dependency gate *)

\* C11 as stated: whatever the invocation, a service is spawned only after
\* the gate returned success with every declared dependency ready.
C11_GateBeforeAnySpawn ==
    spawned > 0 => gateRes = "nil" /\ nReady = Len(deps)

\* C11: in a full startup a service is spawned only after the gate returned
\* success with every declared dependency ready, and no service is spawned
\* once the gate returned an error; start-one spawns its service without
\* running the gate at all.
C11_GateBeforeSpawn ==
    /\ (mode = "run" /\ spawned > 0) => gateRes = "nil" /\ nReady = Len(deps)
    /\ gateRes \notin {"none", "nil"} => spawned = 0
    /\ mode = "start-one" => gateRes = "none" /\ checked = 0

\* A full startup spawned all its services after two dependencies were
\* found ready, one of them after it had to be started and polled.
C11_Witness ==
    /\ mode = "run"
    /\ spawned = NumServices
    /\ nReady = 2
    /\ attempts > 0

\* C12: when the first check of a dependency without start command fails,
\* the gate returns at once the "no start command" error naming it: one
\* check of it, no poll, no time spent, no check of a later dependency.
C12_NoStartFailsFast ==
    /\ gateRes = "no_start" =>
          /\ errDep = checked
          /\ checksRun = 1
          /\ attempts = 0
          /\ elapsed = 0
    /\ [][(gpc = "check" /\ firstOk' = "fail" /\ NoStart(deps[depIdx])) =>
            /\ gateRes' = "no_start"
            /\ gpc' = "gate_ret"
            /\ errDep' = depIdx
         ]_vars

\* The first of two dependencies has no start command and its check failed.
C12_Witness ==
    /\ Len(deps) = 2
    /\ NoStart(deps[1])
    /\ gateRes = "no_start"
    /\ errDep = 1

\* ceil(t / PollInterval)
CeilPolls(t) == (t + PollInterval - 1) \div PollInterval

C28_AlwaysPolls ==
    [][((gpc = "start") => (gpc' = "poll")) /\
       ((gpc = "poll" /\ nReady' = nReady + 1) =>
              (elapsed' <= Timeout(deps[depIdx])))]_vars

\* C28: after a failed first check the start command is run; if it fails
\* (for a command ending in "&": if its second launch fails too) the gate
\* fails for that dependency without polling, otherwise it polls.  Every
\* poll begins before the deadline, and while polling the dependency
\* succeeds if and only if the poll just made passed; it fails by timeout
\* only with no poll passed.
C28_StartThenPoll ==
    /\ [](gateRes = "start_failed" =>
            errDep = depIdx /\ firstOk = "fail" /\ attempts = 0 /\ checksRun = 1)
    /\ [][(gpc = "start") =>
            (\/ gpc' = "poll" /\ errDep' = errDep
             \/ gpc' = "gate_ret" /\ gateRes' = "start_failed")]_vars
    /\ [][(gpc = "poll") =>
            (/\ (attempts' = attempts + 1) => (elapsed < Timeout(deps[depIdx]))
             /\ (nReady' = nReady + 1) <=> (gpc' # "poll" /\ errDep' = errDep)
             /\ (gpc' = "gate_ret" /\ nReady' = nReady) => (gateRes' = "timeout"))]_vars

\* A start command that backgrounds itself was run, and the first poll
\* passed.
C28_Witness ==
    /\ Len(deps) = 1
    /\ Background(deps[1])
    /\ firstOk = "fail"
    /\ attempts = 1
    /\ gateRes = "nil"

----------------------------------------------------------------------------
(* Properties of the addressing of sessions *)

\* The panes of the live listing whose title contains ref, case-insensitively.
Matching(ref) == {k \in 1..Len(panes) : Contains(Lowered[panes[k].title], Lowered[ref])}

\* The reference is a numeral that indexes the live listing.
IsIndex(ref) == Parsed[ref].ok /\ Parsed[ref].val \in 1..Len(panes)

\* C15: a resolution on the ControlPlane path never yields the id of a pane
\* that is not in the live listing (one destroyed or replaced from outside).
C15_ResolvesFromLive ==
    (rev.path = "api" /\ rev.target # 0) => rev.target \in PaneIds(panes)

\* C16: a reference that matches more than one session is answered by an
\* error that lists all sessions, and no action is performed.
C16_AmbiguousIsError ==
    (rev.queried /\ ~Parsed[rev.ref].ok /\ Cardinality(Matching(rev.ref)) > 1) =>
        /\ rev.target = 0
        /\ rev.err # ""
        /\ Len(rev.names) = Len(panes)

\* C17: on both paths a numeral k with 1 <= k <= n resolves to the k-th
\* session of the live listing of n sessions.
C17_IndexResolves ==
    (rev.path \in {"api", "bridge"} /\ rev.err # "list_failed" /\
     (rev.path = "api" => rev.queried \/ rev.target # 0) /\ IsIndex(rev.ref)) =>
        rev.target = panes[Parsed[rev.ref].val].id

\* C18: on both paths a non-numeric reference that some title contains
\* resolves to the earliest session of the live listing whose title contains
\* it, case-insensitively.
C18_FirstSubstringMatch ==
    (rev.path \in {"api", "bridge"} /\ rev.target # 0 /\ ~Parsed[rev.ref].ok) =>
        /\ Matching(rev.ref) # {}
        /\ rev.target = panes[Min(Matching(rev.ref))].id

\* C19: on both paths a reference that matches no session of the live
\* listing leads to no action and to a not-found error that lists the name
\* of every session of the listing.
C19_NotFoundListsAll ==
    (rev.path \in {"api", "bridge"} /\ rev.err # "list_failed" /\
     (rev.path = "api" => rev.queried \/ rev.target # 0) /\
     panes # <<>> /\ ~IsIndex(rev.ref) /\ Matching(rev.ref) = {}) =>
        /\ rev.target = 0
        /\ rev.err = "not_found"
        /\ Len(rev.names) = Len(panes)
        /\ \A k \in 1..Len(panes) : Contains(rev.names[k], panes[k].title)

----------------------------------------------------------------------------
(* Properties of the crash detection *)

InFailed(name) == \E k \in 1..Len(failed) : failed[k] = name

\* The log of the service can be read and its tail holds a marker whose
\* code is not 0.
TailHasNonZero(l) ==
    /\ Readable(l)
    /\ \E k \in MarkersInTail(l.chunks) : ExitCode[l.chunks[k].code].val # 0

\* C20: a scan classifies a service as failed exactly when its log can be
\* read and the last 2 KB of it hold an "Exited with code N" marker with
\* N # 0; a tail with only "Exited with code 0", with no marker, or a log
\* that cannot be read, is classified as not failed.
C20_TailClassifies ==
    scanned => \A n \in Services : InFailed(n) <=> TailHasNonZero(svcLog[n])

----------------------------------------------------------------------------
(* Properties of the shutdown endpoint *)

\* C21: once the teardown callback has started, the success response of
\* every shutdown request the server took has been completely written to
\* its client; teardown never starts before or during the writing of one.
C21_ResponseBeforeTeardown ==
    teardown # "no" =>
        \A r \in StopReqIds :
            (stopReqs[r].pc # "none" /\ stopReqs[r].method = "POST") =>
                stopReqs[r].pc = "flushed"

----------------------------------------------------------------------------
(* Properties of the Agent Bridge *)

\* The ids of the messages of a sequence that carry one, in order.
RECURSIVE IdsOf(_)
IdsOf(q) ==
    IF q = <<>> THEN <<>>
    ELSE (IF Head(q).id # 0 THEN <<Head(q).id>> ELSE <<>>) \o IdsOf(Tail(q))

\* The responses written to JSON messages (parse errors set aside).
RECURSIVE Answers(_)
Answers(q) ==
    IF q = <<>> THEN <<>>
    ELSE (IF Head(q).kind # "parse_error" THEN <<Head(q)>> ELSE <<>>)
         \o Answers(Tail(q))

\* C22: the responses written are exactly one per request that carried an
\* id, in the order the requests were read, and none for any notification,
\* whatever its method.
C22_OneResponsePerRequest ==
    /\ Len(Answers(outbox)) = Len(IdsOf(inbox))
    /\ \A k \in 1..Len(Answers(outbox)) : Answers(outbox)[k].id = IdsOf(inbox)[k]

\* C23: a tools/call makes exactly one request to the ControlPlane, runs no
\* command on the terminal backend itself, and writes one response.
C23_OneControlPlaneRequest ==
    (lastCall.responses # 0 /\ lastCall.tool # "") =>
        /\ lastCall.http = 1
        /\ lastCall.cli = 0
        /\ lastCall.responses = 1

----------------------------------------------------------------------------
(* Properties of Stop, the exit monitor and a failed launch *)

C26_FailedLaunchDiscarded ==
    /\ ~pmMu => \A i \in Registered : State[i] \notin {StateStarting, StateError}
    /\ (ev.op = "StartProcess" /\ ev.res = "launch_failed") => processes[ev.id] = 0

\* A launch has failed for an id while another process is registered.
C26_Witness ==
    /\ ev.op = "StartProcess"
    /\ ev.res = "launch_failed"
    /\ Registered # {}

----------------------------------------------------------------------------
(* Properties of the output buffer *)

\* The most recent min(t, maxLines) of t lines, in arrival order.
MostRecent(t) ==
    LET n == IF t < maxLines THEN t ELSE maxLines
    IN  [j \in 1..n |-> t - n + j]

\* C27: what GetOutput returns never holds more than the capacity, and is
\* always the most recent min(total, capacity) lines captured, in arrival
\* order: at capacity an append evicts exactly the oldest line.
C27_RingBuffer ==
    /\ Len(observed.lines) <= maxLines
    /\ observed.lines = MostRecent(observed.total)

\* GetOutput has returned a full buffer from which lines had been evicted.
C27_Witness ==
    /\ Len(observed.lines) = maxLines
    /\ observed.total > maxLines + 1

----------------------------------------------------------------------------
(* Properties of the orchestrator runs *)

\* C29: a spawn that fails leaves the batch going: the run does not end,
\* the panes spawned so far stay alive and tracked; and when a run whose
\* batch had a failure is over, its panes that are alive are in the roster.
C29_SpawnFailureIsLocal ==
    /\ [](lastEnd = "failed_batch" /\ rpc = "idle" =>
            {p \in alive : p.run = runNo} \subseteq roster)
    /\ [][(failedSvc' # failedSvc /\ failedSvc' # 0) =>
            (rpc' # "idle" /\ paneIDs' = paneIDs /\ alive' = alive)]_vars

\* C30: once the startup of a run has read the roster and killed its panes,
\* no pane spawned by an earlier run is alive, however the earlier runs
\* ended.
C30_NoOrphans ==
    rpc # "kill_prev" => \A p \in alive : p.run >= runNo

----------------------------------------------------------------------------
(* Properties of the pane backend *)

\* C31: the launcher spawns a tab for a service only when no live pane is
\* titled with that service name, so that no two live panes carry one name.
C31_OneLivePanePerService ==
    [][\A t \in Titles :
          (servicePanes'[t] # servicePanes[t]) =>
              ~(\E k \in 1..Len(panes) : panes[k].title = t)]_vars

----------------------------------------------------------------------------
(* Properties of the lock of the API server *)

\* C32: no handler is in a backend call while it holds s.mu, and so no
\* status request waits for s.mu behind a writer that waits for the handler
\* of a blocked backend call.
C32_NoLockAcrossBackendCall ==
    /\ \A r \in 1..MaxReqs : hreq[r].pc = "calling" => ~hreq[r].holds
    /\ \A r \in 1..MaxReqs :
          (hreq[r].kind = "status" /\ hreq[r].pc = "rlock" /\ setter = "waiting") =>
              ~(\E q \in Holders : hreq[q].pc = "calling")

----------------------------------------------------------------------------
(* Properties of the registry of the launcher *)

\* C33: while a spawn writes the registry no other goroutine reads or
\* writes it, and so the runtime never finds a concurrent map access.
C33_RegistryExclusive ==
    /\ \A r \in InRegistry : Conflicting(r, racc[r].op) = {}
    /\ ~regFault

----------------------------------------------------------------------------
(* Properties of spawning a tab *)

\* C34: a spawn makes at most 5 attempts, each failed attempt is followed
\* by a pause of 500 ms before the next one; the first success returns the
\* pane id and ends the attempts; the error is returned only after 5
\* failures in a row.
C34_FiveAttempts ==
    /\ [](sp.attempts <= 5)
    /\ [](sp.pc = "try" => (sp.slept = 500 * sp.attempts /\ sp.fails = sp.attempts))
    /\ [](sp.result = "pane_id" =>
            (sp.pc = "returned" /\ sp.fails = sp.attempts - 1))
    /\ [](sp.result = "error" =>
            (sp.pc = "returned" /\ sp.fails = 5 /\ sp.attempts = 5))
    /\ [][(sp.pc = "returned") => (sp'.pc = "idle")]_vars

C34_Witness ==
    \/ sp.result = "error" /\ sp.via = "window"
    \/ sp.result = "pane_id" /\ sp.attempts = 3 /\ sp.via = "pane"

----------------------------------------------------------------------------
(* Properties of the stale-session cleanup *)

\* The pane ids among some lines: the lines that are not blank, trimmed.
RECURSIVE NonEmptyIds(_)
NonEmptyIds(ls) ==
    IF ls = <<>> THEN <<>>
    ELSE IF Head(ls) \in {"", " "} THEN NonEmptyIds(Tail(ls))
    ELSE <<(IF Head(ls) = "9 " THEN "9" ELSE Head(ls))>> \o NonEmptyIds(Tail(ls))

\* C35: when the cleanup is over a kill has been issued for every non-empty
\* pane id of the roster, in order, whichever of the kills failed.
C35_EveryEntryKilled ==
    kp.pc = "done" => kp.issued = NonEmptyIds([k \in 1..Len(kp.lines) |-> kp.lines[k]])

C35_Witness ==
    /\ kp.pc = "done"
    /\ Len(kp.issued) >= 2
    /\ ~kp.results[1]

----------------------------------------------------------------------------
(* Properties of the commands to a worker *)

\* C36 as stated: a send returns within 2 seconds, with success if its
\* write completed and with a timeout error otherwise.
C36_SuccessOrTimeout ==
    \A i \in 1..MaxSends :
        sends[i].pc = "returned" =>
            /\ sends[i].elapsed <= 2
            /\ sends[i].result = (IF sends[i].delivered THEN "ok" ELSE "timeout")

\* C36: no caller waits longer than 2 seconds; a send returns success only
\* if its write completed, the error of the open or of the write if that
\* failed, and the timeout error only when 2 seconds have passed without a
\* result of the writer.
C36_BoundedReturn ==
    \A i \in 1..MaxSends :
        /\ sends[i].elapsed <= 2
        /\ sends[i].pc = "returned" =>
              /\ sends[i].result \in {"ok", "open_error", "write_error", "timeout"}
              /\ sends[i].result = "ok" => sends[i].delivered
              /\ sends[i].result = "timeout" => sends[i].elapsed = 2
              /\ sends[i].result \in {"open_error", "write_error"} =>
                    sends[i].done = sends[i].result /\ ~sends[i].delivered

C36_Witness ==
    \E i \in 1..MaxSends :
        /\ sends[i].pc = "returned"
        /\ sends[i].result = "timeout"
        /\ sends[i].wr = "opening"
        /\ ~reader

\* C37: the command of a send that returned the timeout error has not been
\* written to the pipe, and is not written later.
C37_TimedOutNeverDelivered ==
    \A i \in 1..MaxSends : sends[i].result = "timeout" => ~sends[i].delivered

----------------------------------------------------------------------------
(* Properties of the pane ids crux records *)

\* C38: every pane id in the pane list of the run or in the roster is the
\* id of a pane crux spawned, and no pane of the user is ever killed by
\* Cleanup or KillPrevious.
C38_OnlyOwnPanes ==
    /\ \A id \in wtracked \cup wroster :
          \E p \in wpanes : p.id = id /\ p.by = "crux"
    /\ wkilled = {}

----------------------------------------------------------------------------
(* Properties of the empty reference *)

\* C39: a tool call of the Agent Bridge whose tab argument is empty (or
\* missing, or no string) resolves to no pane: it is answered by a
\* not-found error and no action is performed on any pane.
C39_EmptyReferenceNotFound ==
    (rev.path = "bridge" /\ rev.ref = "" /\ rev.err # "list_failed") =>
        /\ rev.target = 0
        /\ rev.err \in {"not_found", "no_tabs"}

----------------------------------------------------------------------------
(* Properties of the teardown *)

\* C40: in one run the teardown callback is entered at most once, and never
\* while the cleanup after a signal runs: at most one goroutine ever enters
\* the cleanup of the panes.
C40_TeardownOnce ==
    Cardinality({k \in 0..MaxStopReqs : cleaners[k].pc \in {"cleanup", "done"}}) <= 1

====
